---- MODULE Spec2Model ----
(***************************************************************************)
(* Model of bmdavll/backup-utils: tarf.py (archiving variant) and yarf.py  *)
(* (sync variant).  Text is modelled as sequences of one-character         *)
(* strings; the regular expressions of instantiateGlobals are modelled by  *)
(* scanners that follow the matching rules of Python's re module.          *)
(***************************************************************************)
EXTENDS Integers, Sequences, FiniteSets, TLC

VARIABLES
    p_variant,  \* "tarf" | "yarf": which program processes the line
    p_line,     \* the stripped input line handed to processLine
    p_pc,       \* "raw" | "parsed" | "resolved": position in processLine
    p_parsed,   \* what parseLine returned
    p_res,      \* the locals of processLine after the implied-part block
    p_source    \* yarf's _source (the -s option), <<>> when not given

pvars == <<p_variant, p_line, p_pc, p_parsed, p_res, p_source>>

VARIABLES
    variant,      \* "tarf" | "yarf": the program that is running
    _deref,       \* "" (neither -L nor -H), "L" or "H"
    _simulate,    \* -n
    _verbose,     \* -v
    _remote,      \* yarf -r
    _source,      \* yarf -s, <<>> when not given
    _purge,       \* yarf: path.exists(_dest) and (_verbose or not _simulate)
    filesys,      \* the filesystem
    pc,           \* "read": in the loop of readLines / readFile; "eof": the
                  \* loop has ended; "crashed": an exception no handler
                  \* catches has left main
    nlines,       \* number of lines read so far
    line,         \* the line processLine was last called with
    _status,      \* the aggregate status
    _num_errors,  \* the error count
    _queues,      \* yarf: (relative, follow) -> the entries queued for rsync
    _archive,     \* tarf: the buckets of the archive, in insertion order
    _tempdirs,    \* tarf: staging group name -> its buckets
    _tempdir,     \* tarf: name of the current staging group
    last          \* the locals of the last processLine call

rvars == <<variant, _deref, _simulate, _verbose, _remote, _source, _purge, filesys,
           pc, nlines, line, _status, _num_errors, _queues, _archive,
           _tempdirs, _tempdir, last>>

VARIABLES
    _compress,    \* tarf: a compressor is configured (-z and the like)
    final_name,   \* tarf: Archive.final_name
    a_status,     \* tarf: Archive.status, "None" | "False" | "True"
    a_path,       \* tarf: Archive.path
    a_done,       \* tarf: readFile has set _archive to None (fully committed)
    td_status,    \* tarf: staging group name -> Tempdir.status
    td_left,      \* tarf: the staging groups all(td.commit() ...) has not
                  \* come to yet
    coll,         \* the collection whose bucket is being dispatched
    idx,          \* the position of that bucket in the collection
    disk,         \* the paths under the destination this run has created
                  \* and not removed
    old,          \* the paths under the destination that were there before
                  \* the run and that it has not removed
    _children,    \* the subprocesses runProc is waiting for
    received,     \* the number of the signal the handler was called with, 0
                  \* when there was none
    at_signal,    \* the children that were running when it arrived
    sent,         \* <<child, signal number>> for every send_signal call
    exit_status,  \* what main returns, meaningful once pc = "exited"
    dispatched    \* the subprocesses started so far, with their exit codes

cvars == <<_compress, final_name, a_status, a_path, a_done, td_status, td_left,
           coll, idx, disk, old, _children, received, at_signal, sent, exit_status,
           dispatched>>

VARIABLES
    unreadable,   \* the files of the filesystem that open() is refused on
    opened,       \* the specification files a link-flagged line has opened
    _filedir,     \* the directory link-flagged patterns are joined to
    stack,        \* the calls of readLines / readFile and of the link branch
                  \* of processLine that have not returned, outermost first
    ioerror       \* the files whose lines cannot be read once they are open

lvars == <<unreadable, opened, _filedir, stack, ioerror>>

vars == <<pvars, rvars, cvars, lvars>>

(***************************************************************************)
(* Bounds                                                                  *)
(***************************************************************************)
MaxPathLen == 7     \* longest line over the path alphabet
MaxTextLen == 4     \* longest line over the quoting/escaping alphabet
MaxLines == 2       \* lines read from the specification file in one run

(***************************************************************************)
(* Characters                                                              *)
(***************************************************************************)
Sep == "/"
BSL == "\\"
DQ  == "\""
HASH == "#"
_purge_chr == "!"
_copy_chr == "%"
_link_chr == "@"
_reserved_flags == {_purge_chr, _copy_chr, _link_chr}
_relative_pat == <<Sep, ".", Sep>>

Min(a, b) == IF a < b THEN a ELSE b
Max(a, b) == IF a > b THEN a ELSE b

\* s[i..] and s[..i-1] with Python's clamping
From(s, i) == SubSeq(s, i, Len(s))
Upto(s, i) == SubSeq(s, 1, i)

\* t occurs in s at index i
OccursAt(s, t, i) ==
    /\ i >= 1
    /\ i + Len(t) - 1 <= Len(s)
    /\ SubSeq(s, i, i + Len(t) - 1) = t

\* Python's "t in s"
Contains(s, t) == \E i \in 1..(Len(s) + 1) : OccursAt(s, t, i)

HasChar(s, c) == \E i \in 1..Len(s) : s[i] = c

StartsWith(s, t) == OccursAt(s, t, 1)
EndsWith(s, t) == Len(t) <= Len(s) /\ OccursAt(s, t, Len(s) - Len(t) + 1)

\* number of consecutive characters c in s starting at index i
RECURSIVE RunLen(_, _, _)
RunLen(s, c, i) ==
    IF i <= Len(s) /\ s[i] = c THEN 1 + RunLen(s, c, i + 1) ELSE 0

\* str.lstrip(c), str.rstrip(c)
RECURSIVE LStrip(_, _)
LStrip(s, c) == IF s # <<>> /\ s[1] = c THEN LStrip(Tail(s), c) ELSE s

RECURSIVE RStrip(_, _)
RStrip(s, c) ==
    IF s # <<>> /\ s[Len(s)] = c THEN RStrip(Upto(s, Len(s) - 1), c) ELSE s

\* str.strip() / str.rstrip() of whitespace (the blank is the only whitespace
\* character of the alphabets used)
Strip(s) == LStrip(RStrip(s, " "), " ")

\* str.rfind(c) as a 1-based index, 0 when absent
RECURSIVE RFind(_, _)
RFind(s, c) ==
    IF s = <<>> THEN 0
    ELSE IF s[Len(s)] = c THEN Len(s)
    ELSE RFind(Upto(s, Len(s) - 1), c)

\* all strings over alphabet A of length n, and of length at most n
StrsOfLen(A, n) == [1..n -> A]

Strs(A, n) == UNION {StrsOfLen(A, k) : k \in 0..n}

(***************************************************************************)
(* posixpath                                                               *)
(***************************************************************************)
\* os.path.basename
basename(p) == From(p, RFind(p, Sep) + 1)

\* os.path.dirname
dirname(p) ==
    LET head == Upto(p, RFind(p, Sep))
    IN  IF head # <<>> /\ RunLen(head, Sep, 1) # Len(head)
        THEN RStrip(head, Sep)
        ELSE head

(***************************************************************************)
(* parseLine: the line normalizer                                          *)
(***************************************************************************)
\* _re_leading_flags = ^(?P<flags>(?:[!%@]\s*)*)(?P<line>.*)
\* index of the first character after the flags group
RECURSIVE FlagsEnd(_, _)
FlagsEnd(s, i) ==
    IF i <= Len(s) /\ s[i] \in _reserved_flags
    THEN FlagsEnd(s, i + 1 + RunLen(s, " ", i + 1))
    ELSE i

\* (?:[^"\\]|\\.)*" : index of the closing quote of a quoted span whose body
\* starts at i, 0 when the span is not closed
RECURSIVE QuoteClose(_, _)
QuoteClose(s, i) ==
    IF i > Len(s) THEN 0
    ELSE IF s[i] = DQ THEN i
    ELSE IF s[i] = BSL
         THEN IF i + 1 <= Len(s) THEN QuoteClose(s, i + 2) ELSE 0
    ELSE QuoteClose(s, i + 1)

\* _re_comments = ^(?P<repl>(?:[^#"\\]|\\.|"(?:[^"\\]|\\.)*")*)(?P<comment>#.*)$
\* index of the '#' that starts the comment, 0 when the expression does not match
RECURSIVE CommentStart(_, _)
CommentStart(s, i) ==
    IF i > Len(s) THEN 0
    ELSE IF s[i] = HASH THEN i
    ELSE IF s[i] = BSL
         THEN IF i + 1 <= Len(s) THEN CommentStart(s, i + 2) ELSE 0
    ELSE IF s[i] = DQ
         THEN LET j == QuoteClose(s, i + 1)
              IN  IF j = 0 THEN 0 ELSE CommentStart(s, j + 1)
    ELSE CommentStart(s, i + 1)

\* _re_comments.sub(r'\g<repl>', line, 1).rstrip()
StripComment(s) ==
    LET c == CommentStart(s, 1)
    IN  RStrip(IF c = 0 THEN s ELSE Upto(s, c - 1), " ")

\* (?:^|(?<=[^\\]))(?:\\\\)*" at index i: the index of the quote, 0 when the
\* expression does not match there
BareQuoteAt(s, i) ==
    LET k == RunLen(s, BSL, i)
    IN  IF /\ i <= Len(s)
           /\ (i = 1 \/ s[i - 1] # BSL)
           /\ k % 2 = 0
           /\ i + k <= Len(s)
           /\ s[i + k] = DQ
        THEN i + k
        ELSE 0

\* _re_quotes.sub(r'\g<repl1>\g<repl2>', line): every matched pair of quotes is
\* dropped, its body kept
RECURSIVE QuotesSub(_, _)
QuotesSub(s, i) ==
    IF i > Len(s) THEN <<>>
    ELSE LET q == BareQuoteAt(s, i)
             c == IF q = 0 THEN 0 ELSE QuoteClose(s, q + 1)
         IN  IF c # 0
             THEN SubSeq(s, i, q - 1) \o SubSeq(s, q + 1, c - 1) \o QuotesSub(s, c + 1)
             ELSE <<s[i]>> \o QuotesSub(s, i + 1)

\* _re_bare_quote.search(line)
HasBareQuote(s) == \E i \in 1..Len(s) : BareQuoteAt(s, i) # 0

\* _re_escaped.sub(r'\g<repl>', line) with _re_escaped = \\(?P<repl>[#"\\])
RECURSIVE Unescape(_, _)
Unescape(s, i) ==
    IF i > Len(s) THEN <<>>
    ELSE IF s[i] = BSL /\ i + 1 <= Len(s) /\ s[i + 1] \in {HASH, DQ, BSL}
         THEN <<s[i + 1]>> \o Unescape(s, i + 2)
    ELSE <<s[i]>> \o Unescape(s, i + 1)

\* CollapseSepTarf with the expression // in place of /{2,}
RECURSIVE CollapseSepTarf_Pairs(_, _)
CollapseSepTarf_Pairs(s, i) ==
    IF i > Len(s) THEN <<>>
    ELSE IF RunLen(s, Sep, i) >= 2
         THEN <<Sep>> \o CollapseSepTarf_Pairs(s, i + 2)
    ELSE <<s[i]>> \o CollapseSepTarf_Pairs(s, i + 1)

\* tarf: _re_repeated_sep.sub(os.sep, line) with _re_repeated_sep = /{2,}
RECURSIVE CollapseSepTarf(_, _)
CollapseSepTarf(s, i) ==
    IF i > Len(s) THEN <<>>
    ELSE IF RunLen(s, Sep, i) >= 2
         THEN <<Sep>> \o CollapseSepTarf(s, i + RunLen(s, Sep, i))
    ELSE <<s[i]>> \o CollapseSepTarf(s, i + 1)

\* yarf: normPath, _re_repeated_sep = (?P<repl>^|[^:])/{2,}
RECURSIVE normPathFrom(_, _)
normPathFrom(s, i) ==
    IF i > Len(s) THEN <<>>
    ELSE IF i = 1 /\ RunLen(s, Sep, 1) >= 2
         THEN <<Sep>> \o normPathFrom(s, 1 + RunLen(s, Sep, 1))
    ELSE IF s[i] # ":" /\ RunLen(s, Sep, i + 1) >= 2
         THEN <<s[i], Sep>> \o normPathFrom(s, i + 1 + RunLen(s, Sep, i + 1))
    ELSE <<s[i]>> \o normPathFrom(s, i + 1)

normPath(s) == normPathFrom(s, 1)

\* number of consecutive "./" in s starting at index i
RECURSIVE DotSepRun(_, _)
DotSepRun(s, i) ==
    IF OccursAt(s, <<".", Sep>>, i) THEN 1 + DotSepRun(s, i + 2) ELSE 0

\* _re_repeated_relative.sub(r'\g<repl>', line),
\* _re_repeated_relative = (?P<repl>/\./)(?:\./)+
RECURSIVE CollapseRelative(_, _)
CollapseRelative(s, i) ==
    IF i > Len(s) THEN <<>>
    ELSE IF OccursAt(s, _relative_pat, i) /\ DotSepRun(s, i + 3) >= 1
         THEN _relative_pat \o CollapseRelative(s, i + 3 + 2 * DotSepRun(s, i + 3))
    ELSE <<s[i]>> \o CollapseRelative(s, i + 1)

\* path.expandvars(path.expanduser(line)) in an environment where HOME is
\* HomeDir and no other variable is set: a leading "~" followed by the end of
\* the line or a separator becomes HomeDir
HomeDir == <<Sep, "h">>

expanduser(s) ==
    IF s # <<>> /\ s[1] = "~" /\ (Len(s) = 1 \/ s[2] = Sep)
    THEN HomeDir \o Tail(s)
    ELSE s

\* the characters of the alphabets that [\w\-+.] matches
TempdirChars == {"a", "b", "c", "f", "g", "h", ".", "-", "+", "_"}

RECURSIVE TempdirRun(_, _)
TempdirRun(s, i) ==
    IF i <= Len(s) /\ s[i] \in TempdirChars THEN 1 + TempdirRun(s, i + 1) ELSE 0

\* TempdirOf for a parseLine that never looks at the comment
TempdirOf_Never(l1) == <<>>

\* tarf parseLine, lines 403-406: the staging group a comment names, <<>> when
\* _re_tempdir = %\s*(?P<tempdir>[\w\-+.]+) does not match the comment
TempdirOf(l1) ==
    LET c == CommentStart(l1, 1)
        comment == LStrip(LStrip(IF c = 0 THEN l1 ELSE From(l1, c), HASH), " ")
        i == 2 + RunLen(comment, " ", 2)
    IN  IF comment # <<>> /\ comment[1] = _copy_chr
        THEN SubSeq(comment, i, i + TempdirRun(comment, i) - 1)
        ELSE <<>>

\* parseLine returns '' for an unterminated quote and a pair otherwise:
\* ok tells the two apart; tempdir is the argument of the setTempdir call it
\* makes on the way (<<>> when it makes none)
parseLine(prog, ln) ==
    LET fe == IF \E c \in _reserved_flags : HasChar(ln, c)
              THEN FlagsEnd(ln, 1) ELSE 1
        leading_flags == Upto(ln, fe - 1)
        l1 == From(ln, fe)
        l2 == IF HasChar(l1, HASH) THEN StripComment(l1) ELSE l1
        l3 == expanduser(l2)
        l4 == IF HasChar(l3, DQ) THEN QuotesSub(l3, 1) ELSE l3
        unterminated == HasChar(l3, DQ) /\ HasBareQuote(l4)
        l5 == IF HasChar(l4, BSL) THEN Unescape(l4, 1) ELSE l4
        l6 == IF Contains(l5, <<Sep, Sep>>)
              THEN IF prog = "tarf" THEN CollapseSepTarf(l5, 1) ELSE normPath(l5)
              ELSE l5
        tempdir == IF prog = "tarf" /\ HasChar(l1, HASH) THEN TempdirOf(l1) ELSE <<>>
    IN  IF unterminated
        THEN [ok |-> FALSE, flags |-> <<>>, pattern |-> <<>>, tempdir |-> tempdir]
        ELSE [ok |-> TRUE, flags |-> leading_flags,
              pattern |-> CollapseRelative(l6, 1), tempdir |-> tempdir]

(***************************************************************************)
(* processLine: the implied part of a pattern                              *)
(***************************************************************************)
\* MaxByLen with min in place of max
MaxByLen_Min(a, b) == IF Len(a) <= Len(b) THEN a ELSE b

\* Python's max(a, b, key=len): the first of the longest
MaxByLen(a, b) == IF Len(a) >= Len(b) THEN a ELSE b

\* Python's s[ : -n] and s[-n : ]
SliceBefore(s, n) == IF n = 0 THEN <<>> ELSE Upto(s, Max(Len(s) - n, 0))
SliceLast(s, n) == IF n = 0 THEN s ELSE From(s, Max(Len(s) - n, 0) + 1)

\* os.path.join(a, b)
join(a, b) ==
    IF StartsWith(b, <<Sep>>) THEN b
    ELSE IF a = <<>> \/ EndsWith(a, <<Sep>>) THEN a \o b
    ELSE a \o <<Sep>> \o b

\* ImpliedMarkerAt with a greedy prefix (^.*/\./+ instead of ^.*?/\./+)
ImpliedMarkerAt_Greedy(pattern) ==
    LET hits == {i \in 1..Len(pattern) :
                    OccursAt(pattern, <<Sep, ".">>, i) /\ RunLen(pattern, Sep, i + 2) >= 1}
    IN  IF hits = {} THEN 0 ELSE CHOOSE i \in hits : \A j \in hits : j <= i

\* where _re_implied_part = ^.*?/\./+(?P<repl>.*)$ matches: the index at which
\* the lazy prefix stops, i.e. of the "/." it found
ImpliedMarkerAt(pattern) ==
    LET hits == {i \in 1..Len(pattern) :
                    OccursAt(pattern, <<Sep, ".">>, i) /\ RunLen(pattern, Sep, i + 2) >= 1}
    IN  IF hits = {} THEN 0 ELSE CHOOSE i \in hits : \A j \in hits : i <= j

\* ImpliedPartSub with an expression that lacks the prefix ^.*? : the text in
\* front of the marker stays
ImpliedPartSub_Unanchored(pattern) ==
    LET i == ImpliedMarkerAt(pattern)
    IN  IF i = 0 THEN pattern
        ELSE Upto(pattern, i - 1) \o From(pattern, i + 2 + RunLen(pattern, Sep, i + 2))

\* _re_implied_part.sub(r'\g<repl>', pattern)
ImpliedPartSub(pattern) ==
    LET i == ImpliedMarkerAt(pattern)
    IN  IF i = 0 THEN pattern
        ELSE From(pattern, i + 2 + RunLen(pattern, Sep, i + 2))

\* MarkerImplied without the "+ os.sep" of the fallback for a pattern that ends
\* in a separator
MarkerImplied_NoSep(pattern) ==
    IF ~Contains(pattern, _relative_pat)
    THEN LET b == basename(pattern)
         IN  IF b # <<>> THEN b ELSE basename(dirname(pattern))
    ELSE ImpliedPartSub(pattern)

\* the first block of processLine: implied_pat before the glob part is looked at
MarkerImplied(pattern) ==
    IF ~Contains(pattern, _relative_pat)
    THEN LET b == basename(pattern)
         IN  IF b # <<>> THEN b
             ELSE LStrip(basename(dirname(pattern)) \o <<Sep>>, Sep)
    ELSE ImpliedPartSub(pattern)

\* the alternatives of _re_glob_part that name a glob construct, at index j:
\* [*?] | \[[^!^/][^/]*\] | \[[!^][^/]+\] | [*?+@!]\([^/]+\)
NoSepIn(s, a, b) == \A k \in a..b : s[k] # Sep

GlobConstructAt(s, j) ==
    /\ j >= 1 /\ j <= Len(s)
    /\ \/ s[j] \in {"*", "?"}
       \/ /\ s[j] = "["
          /\ j + 1 <= Len(s)
          /\ s[j + 1] \notin {"!", "^", Sep}
          /\ \E m \in (j + 2)..Len(s) : s[m] = "]" /\ NoSepIn(s, j + 2, m - 1)
       \/ /\ s[j] = "["
          /\ j + 1 <= Len(s)
          /\ s[j + 1] \in {"!", "^"}
          /\ \E m \in (j + 3)..Len(s) : s[m] = "]" /\ NoSepIn(s, j + 2, m - 1)
       \/ /\ s[j] \in {"*", "?", "+", "@", "!"}
          /\ j + 1 <= Len(s)
          /\ s[j + 1] = "("
          /\ \E m \in (j + 3)..Len(s) : s[m] = ")" /\ NoSepIn(s, j + 2, m - 1)

\* s[a..b-1] is (?:\\\\)*
BackslashPairs(s, a, b) ==
    /\ (b - a) % 2 = 0
    /\ \A k \in a..(b - 1) : s[k] = BSL

\* _re_glob_part matches starting at index i:
\* (?:^|/|[^/]*[^/\\])(?:\\\\)*(?:<construct>).*$
GlobMatchAt(s, i) ==
    \E j \in i..Len(s) :
        /\ GlobConstructAt(s, j)
        /\ \/ i = 1 /\ BackslashPairs(s, i, j)
           \/ s[i] = Sep /\ BackslashPairs(s, i + 1, j)
           \/ \E k \in (i + 1)..j :
                /\ NoSepIn(s, i, k - 1)
                /\ s[k - 1] # BSL
                /\ BackslashPairs(s, k, j)

\* _re_glob_part.search(pattern): index where the leftmost match starts, 0 if none
GlobSearch(pattern) ==
    LET hits == {i \in 1..Len(pattern) : GlobMatchAt(pattern, i)}
    IN  IF hits = {} THEN 0 ELSE CHOOSE i \in hits : \A j \in hits : i <= j

\* glob_pat of processLine
GlobPat(pattern) ==
    LET i == GlobSearch(pattern)
    IN  IF i = 0 THEN <<>> ELSE LStrip(From(pattern, i), Sep)

\* tarf processLine, lines 445-461: the implied part and the slice handed to
\* path.abspath
ImpliedTarf(pattern) ==
    LET marker_pat == MarkerImplied(pattern)
        glob_pat == GlobPat(pattern)
        implied_pat == MaxByLen(marker_pat, glob_pat)
    IN  [pattern |-> pattern,
         marker_pat |-> marker_pat,
         glob_pat |-> glob_pat,
         implied_pat |-> implied_pat,
         relative |-> Contains(pattern, _relative_pat),
         base |-> SliceBefore(pattern, Len(implied_pat)),
         error |-> FALSE]

\* yarf processLine, lines 211-245: the implied part, the rewritten pattern and
\* the slice handed to purgeMatching as the source root
ImpliedYarf(pattern, source) ==
    LET marker_pat == MarkerImplied(pattern)
        glob_pat == GlobPat(pattern)
        pos == Len(glob_pat)
        rewritten ==
            IF glob_pat = <<>> THEN pattern
            ELSE IF glob_pat = pattern THEN <<".">> \o _relative_pat \o pattern
            ELSE IF ~Contains(SliceBefore(pattern, pos), _relative_pat)
                 THEN normPath(SliceBefore(pattern, pos) \o _relative_pat
                               \o SliceLast(pattern, pos))
            ELSE pattern
        implied_pat == MaxByLen(marker_pat, glob_pat)
        final == IF source # <<>> /\ implied_pat # <<>>
                 THEN join(source, implied_pat) ELSE rewritten
    IN  [pattern |-> final,
         marker_pat |-> marker_pat,
         glob_pat |-> glob_pat,
         implied_pat |-> implied_pat,
         relative |-> Contains(pattern, _relative_pat) \/ glob_pat # <<>>,
         base |-> SliceBefore(final, Len(implied_pat)),
         error |-> source # <<>> /\ implied_pat = <<>>]

(***************************************************************************)
(* The filesystem.  A node is named by the sequence of the names on the    *)
(* way from the root; a filesystem maps the nodes that exist to their kind *)
(* and, for a symbolic link, the node it points to.                        *)
(***************************************************************************)
NoNode == <<<<"?">>>>

\* str.split('/')
RECURSIVE Split(_)
Split(s) ==
    LET seps == {i \in 1..Len(s) : s[i] = Sep}
    IN  IF seps = {} THEN <<s>>
        ELSE LET i == CHOOSE i \in seps : \A j \in seps : i <= j
             IN  <<Upto(s, i - 1)>> \o Split(From(s, i + 1))

\* '/'.join(comps)
RECURSIVE JoinSep(_)
JoinSep(comps) ==
    IF comps = <<>> THEN <<>>
    ELSE IF Len(comps) = 1 THEN comps[1]
    ELSE comps[1] \o <<Sep>> \o JoinSep(Tail(comps))

\* the loop of posixpath.normpath over the components
RECURSIVE NormComps(_, _, _)
NormComps(comps, new_comps, initial_slashes) ==
    IF comps = <<>> THEN new_comps
    ELSE LET comp == Head(comps)
         IN  IF comp \in {<<>>, <<".">>}
             THEN NormComps(Tail(comps), new_comps, initial_slashes)
             ELSE IF \/ comp # <<".", ".">>
                     \/ (initial_slashes = 0 /\ new_comps = <<>>)
                     \/ (new_comps # <<>> /\ new_comps[Len(new_comps)] = <<".", ".">>)
             THEN NormComps(Tail(comps), Append(new_comps, comp), initial_slashes)
             ELSE IF new_comps # <<>>
             THEN NormComps(Tail(comps), Upto(new_comps, Len(new_comps) - 1),
                            initial_slashes)
             ELSE NormComps(Tail(comps), new_comps, initial_slashes)

\* posixpath.normpath
normpath(s) ==
    LET lead == RunLen(s, Sep, 1)
        initial_slashes == IF lead = 2 THEN 2 ELSE IF lead >= 1 THEN 1 ELSE 0
        body == JoinSep(NormComps(Split(s), <<>>, initial_slashes))
        res == (IF initial_slashes = 2 THEN <<Sep, Sep>>
                ELSE IF initial_slashes = 1 THEN <<Sep>> ELSE <<>>) \o body
    IN  IF s = <<>> \/ res = <<>> THEN <<".">> ELSE res

\* posixpath.abspath with os.getcwd() = cwd
abspath(cwd, s) == normpath(join(cwd, s))

\* path resolution: the node reached from directory node cur along comps;
\* the last component, when a symbolic link, is followed only if followLast
RECURSIVE Walk(_, _, _, _)
Walk(fs, cur, comps, followLast) ==
    IF cur = NoNode THEN NoNode
    ELSE IF comps = <<>> THEN cur
    ELSE IF fs[cur].kind # "dir" THEN NoNode
    ELSE LET c == Head(comps)
             rest == Tail(comps)
             child == Append(cur, c)
         IN  IF c \in {<<>>, <<".">>} THEN Walk(fs, cur, rest, followLast)
             ELSE IF c = <<".", ".">>
                  THEN Walk(fs, Upto(cur, Max(Len(cur) - 1, 0)), rest, followLast)
             ELSE IF child \notin DOMAIN fs THEN NoNode
             ELSE IF fs[child].kind = "link" /\ (rest # <<>> \/ followLast)
                  THEN IF fs[child].target \in DOMAIN fs
                       THEN Walk(fs, fs[child].target, rest, followLast)
                       ELSE NoNode
             ELSE Walk(fs, child, rest, followLast)

\* the node a path names, seen from the directory whose path is cwd
NodeOf(fs, cwd, s, followLast) ==
    IF s = <<>> THEN NoNode
    ELSE IF s[1] = Sep THEN Walk(fs, <<>>, Split(s), followLast)
    ELSE Walk(fs, Walk(fs, <<>>, Split(cwd), TRUE), Split(s), followLast)

\* what os.lstat (os.stat when followLast) finds at a node
KindAt(fs, n) == IF n = NoNode THEN "none" ELSE fs[n].kind

KindOf(fs, cwd, s, followLast) == KindAt(fs, NodeOf(fs, cwd, s, followLast))

\* os.path.islink, isfile, isdir, lexists, exists
islink(fs, cwd, s) == KindOf(fs, cwd, s, FALSE) = "link"
isfile(fs, cwd, s) == KindOf(fs, cwd, s, TRUE) = "file"
isdir(fs, cwd, s) == KindOf(fs, cwd, s, TRUE) = "dir"
lexists(fs, cwd, s) == KindOf(fs, cwd, s, FALSE) # "none"
exists(fs, cwd, s) == KindOf(fs, cwd, s, TRUE) # "none"

\* the order in which os.listdir returns names: the order of this list
NameOrder == << <<".", "h">>, <<"a">>, <<"b">>, <<"e">>, <<"f">>, <<"g">>,
               <<"k">>, <<"l">>, <<"m">>, <<"n">>, <<"r">>, <<"s">>, <<"t">>,
               <<"x">> >>

\* os.listdir of the directory a path names ([] when it is no directory)
NamesAt(fs, d) ==
    IF KindAt(fs, d) # "dir" THEN <<>>
    ELSE SelectSeq(NameOrder, LAMBDA n : Append(d, n) \in DOMAIN fs)

listdir(fs, cwd, s) ==
    NamesAt(fs, NodeOf(fs, cwd, IF s = <<>> THEN <<".">> ELSE s, TRUE))

\* fnmatch.fnmatch for patterns made of literal characters, "*" and "?"
RECURSIVE fnmatch(_, _)
fnmatch(name, pat) ==
    IF pat = <<>> THEN name = <<>>
    ELSE IF pat[1] = "*"
         THEN \/ fnmatch(name, Tail(pat))
              \/ name # <<>> /\ fnmatch(Tail(name), pat)
    ELSE /\ name # <<>>
         /\ (pat[1] = "?" \/ pat[1] = name[1])
         /\ fnmatch(Tail(name), Tail(pat))

\* glob.has_magic
has_magic(s) == \E i \in 1..Len(s) : s[i] \in {"*", "?", "["}

\* glob.glob1: the names in a directory that match a pattern; a leading dot
\* has to be matched explicitly
glob1(fs, cwd, dir, pat, dironly) ==
    SelectSeq(listdir(fs, cwd, dir),
              LAMBDA n : /\ (n[1] # "." \/ pat[1] = ".")
                         /\ fnmatch(n, pat)
                         /\ (dironly => isdir(fs, cwd, join(dir, n))))

\* glob.glob0
glob0(fs, cwd, dir, base) ==
    IF base = <<>>
    THEN IF isdir(fs, cwd, dir) THEN << <<>> >> ELSE <<>>
    ELSE IF lexists(fs, cwd, join(dir, base)) THEN <<base>> ELSE <<>>

\* glob._iglob: the names found in directory d, each joined to d
joinAll(d, names) == [i \in 1..Len(names) |-> join(d, names[i])]

globInDir(fs, cwd, d, bn, dironly) ==
    joinAll(d, IF has_magic(bn) THEN glob1(fs, cwd, d, bn, dironly)
               ELSE glob0(fs, cwd, d, bn))

RECURSIVE globInDirs(_, _, _, _, _)
globInDirs(fs, cwd, dirs, bn, dironly) ==
    IF dirs = <<>> THEN <<>>
    ELSE globInDir(fs, cwd, Head(dirs), bn, dironly)
            \o globInDirs(fs, cwd, Tail(dirs), bn, dironly)

\* glob.glob (glob._iglob), paths relative to the directory cwd
RECURSIVE globIn(_, _, _, _)
globIn(fs, cwd, pathname, dironly) ==
    LET dn == dirname(pathname)
        bn == basename(pathname)
    IN  IF ~has_magic(pathname)
        THEN IF bn # <<>>
             THEN IF lexists(fs, cwd, pathname) THEN <<pathname>> ELSE <<>>
             ELSE IF isdir(fs, cwd, dn) THEN <<pathname>> ELSE <<>>
        ELSE IF dn = <<>> THEN glob1(fs, cwd, <<>>, bn, dironly)
        ELSE IF dn # pathname /\ has_magic(dn)
             THEN globInDirs(fs, cwd, globIn(fs, cwd, dn, TRUE), bn, dironly)
        ELSE globInDir(fs, cwd, dn, bn, dironly)

glob(fs, cwd, pathname) == globIn(fs, cwd, pathname, FALSE)

\* the filesystem the programs run in: the run directory /r with a directory
\* a (a file f and a hidden file .h in it), an empty directory e, a directory
\* g with only a hidden file, a file f, links l (to f), m (to a), n (to e) and
\* the broken link b; the source root /s and the destination /t
DirEnt(p) == [path |-> p, kind |-> "dir", target |-> NoNode]
FileEnt(p) == [path |-> p, kind |-> "file", target |-> NoNode]
LinkEnt(p, t) == [path |-> p, kind |-> "link", target |-> t]

RunDirEntries ==
    { DirEnt(<<>>),
      DirEnt(<< <<"r">> >>),
      DirEnt(<< <<"r">>, <<"a">> >>),
      FileEnt(<< <<"r">>, <<"a">>, <<"f">> >>),
      FileEnt(<< <<"r">>, <<"a">>, <<".", "h">> >>),
      DirEnt(<< <<"r">>, <<"e">> >>),
      DirEnt(<< <<"r">>, <<"g">> >>),
      FileEnt(<< <<"r">>, <<"g">>, <<".", "h">> >>),
      FileEnt(<< <<"r">>, <<"f">> >>),
      LinkEnt(<< <<"r">>, <<"l">> >>, << <<"r">>, <<"f">> >>),
      LinkEnt(<< <<"r">>, <<"m">> >>, << <<"r">>, <<"a">> >>),
      LinkEnt(<< <<"r">>, <<"n">> >>, << <<"r">>, <<"e">> >>),
      LinkEnt(<< <<"r">>, <<"b">> >>, << <<"r">>, <<"x">> >>),
      DirEnt(<< <<"s">> >>),
      FileEnt(<< <<"s">>, <<"f">> >>) }

\* the filesystem made of a set of entries
MkFS(entries) ==
    [k \in {e.path : e \in entries} |->
        LET e == CHOOSE e \in entries : e.path = k
        IN  [kind |-> e.kind, target |-> e.target]]

_rundir == <<Sep, "r">>

(***************************************************************************)
(* The run: options, status, queues                                        *)
(***************************************************************************)
NoParse == [ok |-> FALSE, flags |-> <<>>, pattern |-> <<>>, tempdir |-> <<>>]
NoRes == [pattern |-> <<>>, marker_pat |-> <<>>, glob_pat |-> <<>>,
          implied_pat |-> <<>>, relative |-> FALSE, base |-> <<>>,
          error |-> FALSE]

_dest == <<Sep, "t">>
SourceDir == <<Sep, "s">>

\* the destination directory /t, empty: tarf's target has to exist
EmptyDest == { DirEnt(<< <<"t">> >>) }

\* the destination directory /t as a run of yarf may find it
DestVariants ==
    { {},
      { DirEnt(<< <<"t">> >>),
        FileEnt(<< <<"t">>, <<"f">> >>),
        FileEnt(<< <<"t">>, <<"x">> >>) },
      { DirEnt(<< <<"t">> >>),
        FileEnt(<< <<"t">>, <<"x">> >>),
        DirEnt(<< <<"t">>, <<"k">> >>),
        FileEnt(<< <<"t">>, <<"k">>, <<"f">> >>) } }

\* updateStatus(code) on the pair (_status, _num_errors)
updateStatus(st, code) ==
    IF code = 0
    THEN [status |-> 0, num_errors |-> 0]
    ELSE [status |-> Max(st.status, code), num_errors |-> st.num_errors + 1]

\* FileCollection.add, were the new entries put before those of the bucket
add_Prepend(queues, srcList, base, follow) ==
    IF srcList = <<>> THEN queues
    ELSE IF \E i \in 1..Len(queues) : queues[i].base = base /\ queues[i].follow = follow
         THEN [i \in 1..Len(queues) |->
                  IF queues[i].base = base /\ queues[i].follow = follow
                  THEN [queues[i] EXCEPT !.srcList = srcList \o @]
                  ELSE queues[i]]
    ELSE Append(queues, [base |-> base, follow |-> follow, srcList |-> srcList])

\* FileCollection.add(srcList, base, follow) on the buckets of a collection
add(queues, srcList, base, follow) ==
    IF srcList = <<>> THEN queues
    ELSE IF \E i \in 1..Len(queues) : queues[i].base = base /\ queues[i].follow = follow
         THEN [i \in 1..Len(queues) |->
                  IF queues[i].base = base /\ queues[i].follow = follow
                  THEN [queues[i] EXCEPT !.srcList = @ \o srcList]
                  ELSE queues[i]]
    ELSE Append(queues, [base |-> base, follow |-> follow, srcList |-> srcList])

\* the keys of yarf's _queues, in the order instantiateGlobals creates them
QueueKeys == << <<TRUE, TRUE>>, <<TRUE, FALSE>>, <<FALSE, TRUE>>, <<FALSE, FALSE>> >>

EmptyQueues == [k \in {QueueKeys[i] : i \in 1..4} |-> <<>>]

\* queueAdd(entry, relative, follow)
queueAdd(queues, entry, relative, follow) ==
    [queues EXCEPT ![<<relative, follow>>] = Append(@, entry)]

NoLast ==
    [result |-> "none", flags |-> <<>>, pattern |-> <<>>, implied_pat |-> <<>>,
     dir |-> <<>>, globList |-> <<>>, fileList |-> <<>>, derefList |-> <<>>,
     copy |-> FALSE]

\* the variables of the run while only a pattern is being looked at
RIdle ==
    /\ variant = "none" /\ _deref = "" /\ _simulate = FALSE /\ _verbose = FALSE
    /\ _remote = FALSE /\ _source = <<>> /\ _purge = FALSE
    /\ filesys = MkFS(RunDirEntries)
    /\ pc = "idle" /\ nlines = 0 /\ line = <<>>
    /\ _status = 0 /\ _num_errors = 0
    /\ _queues = EmptyQueues /\ _archive = <<>>
    /\ _tempdirs = <<>> /\ _tempdir = <<>>
    /\ last = NoLast

\* the name of the input file without its suffix
InputBase == <<"c">>

\* Archive.name = base + _tar_ext, and final_name when it differs from it
ArchiveName == InputBase \o <<".", "t", "a", "r">>
CompressedName == ArchiveName \o <<".", "g", "z">>

\* the variables of the commit phase while the run has not come to it
CIdle ==
    /\ _compress = FALSE /\ final_name = ArchiveName
    /\ a_status = "None" /\ a_path = ArchiveName /\ a_done = FALSE
    /\ td_status = <<>> /\ td_left = {}
    /\ coll = <<>> /\ idx = 0 /\ disk = {} /\ old = {} /\ _children = {}
    /\ received = 0 /\ at_signal = {} /\ sent = {} /\ exit_status = 0
    /\ dispatched = <<>>

\* the variables of link-flagged lines while none is read
LIdle ==
    /\ unreadable = {} /\ opened = <<>>
    /\ _filedir = <<>> /\ stack = <<>> /\ ioerror = {}

\* the variables of the pattern specification while a run is looked at
PIdle ==
    /\ p_variant = "none" /\ p_line = <<>> /\ p_pc = "idle"
    /\ p_parsed = NoParse /\ p_res = NoRes /\ p_source = <<>>

(***************************************************************************)
(* processLine of tarf                                                     *)
(***************************************************************************)
\* tarf processLine, lines 487-506: where one glob match goes when -L is not
\* given; f is what it adds to fileList, d what it adds to derefList
ContentsOrEntry(contents, entry) ==
    IF contents # <<>> THEN [f |-> contents, d |-> <<>>]
    ELSE [f |-> <<>>, d |-> <<entry>>]

ClassifyEntryTarf(fsys, cwd, deref, entry) ==
    IF (deref = "H" /\ islink(fsys, cwd, entry)) \/ EndsWith(entry, <<Sep>>)
    THEN IF isfile(fsys, cwd, entry) THEN [f |-> <<>>, d |-> <<entry>>]
         ELSE IF isdir(fsys, cwd, entry)
              THEN ContentsOrEntry(glob(fsys, cwd, join(entry, <<"*">>)), entry)
         ELSE [f |-> <<entry>>, d |-> <<>>]
    ELSE [f |-> <<entry>>, d |-> <<>>]

\* fileList += ..., derefList.append(...) of one pass of the loop
ClassifyMerge(c, r) ==
    [fileList |-> c.f \o r.fileList, derefList |-> c.d \o r.derefList]

RECURSIVE ClassifyLoopTarf(_, _, _, _)
ClassifyLoopTarf(fsys, cwd, deref, globList) ==
    IF globList = <<>> THEN [fileList |-> <<>>, derefList |-> <<>>]
    ELSE ClassifyMerge(ClassifyEntryTarf(fsys, cwd, deref, Head(globList)),
                       ClassifyLoopTarf(fsys, cwd, deref, Tail(globList)))

\* tarf processLine, lines 480-506
ClassifyTarf(fsys, cwd, deref, globList) ==
    IF deref = "L" THEN [fileList |-> <<>>, derefList |-> globList]
    ELSE ClassifyLoopTarf(fsys, cwd, deref, globList)

\* setTempdir with a new, empty group made on every call
setTempdir_Fresh(tempdirs, name) ==
    (name :> <<>>) @@ tempdirs

\* setTempdir(name) on the staging groups
setTempdir(tempdirs, name) ==
    IF name \in DOMAIN tempdirs THEN tempdirs ELSE (name :> <<>>) @@ tempdirs

\* tarf processLine, lines 508-513: the lists go to the staging group of the
\* line (copy flag) or to the archive
TarfLine_add(out, resolved, copy, td, dir, globList, cl) ==
    [out EXCEPT
        !.archive = IF copy THEN @
                    ELSE add(add(@, cl.fileList, dir, FALSE),
                             cl.derefList, dir, TRUE),
        !.tempdirs = IF copy
                     THEN [@ EXCEPT ![td] =
                              add(add(@, cl.fileList, dir, FALSE),
                                  cl.derefList, dir, TRUE)]
                     ELSE @,
        !.last = [resolved EXCEPT !.result = "queued",
                                  !.globList = globList,
                                  !.fileList = cl.fileList,
                                  !.derefList = cl.derefList]]

\* tarf processLine, lines 475-506: no match is an error, matches are classified
TarfLine_glob(out, st, resolved, copy, td, dir, globList) ==
    IF globList = <<>>
    THEN [out EXCEPT !.st = updateStatus(st, 1),
                     !.last = [resolved EXCEPT !.result = "nomatch"]]
    ELSE TarfLine_add(out, resolved, copy, td, dir, globList,
                      ClassifyTarf(filesys, dir, _deref, globList))

\* tarf processLine, lines 463-473: chdir(abspath) or "no matches", then the
\* glob of the implied path ('.' when it is empty) from there
TarfLine_chdir(out, st, seen, copy, td, implied_pat, dir) ==
    IF ~isdir(filesys, _rundir, dir)
    THEN [out EXCEPT !.st = updateStatus(st, 1),
                     !.last = [seen EXCEPT !.implied_pat = implied_pat,
                                           !.dir = dir, !.result = "nodir"]]
    ELSE TarfLine_glob(out, st,
                       [seen EXCEPT !.implied_pat = implied_pat, !.dir = dir],
                       copy, td, dir,
                       glob(filesys, dir,
                            IF implied_pat = <<>> THEN <<".">> ELSE implied_pat))

\* tarf processLine, lines 445-461: implied path and the directory it is
\* relative to
TarfLine_implied(out, st, seen, copy, td, r) ==
    TarfLine_chdir(out, st, seen, copy, td, r.implied_pat,
                   abspath(_rundir, r.base))

\* tarf processLine, lines 422-428, on what parseLine returned.  Lines with the
\* link flag (lines 430-443) are not among the lines read here.
TarfLine_parsed(pr, st) ==
    LET tds == IF pr.tempdir # <<>> THEN setTempdir(_tempdirs, pr.tempdir)
               ELSE _tempdirs
        td == IF pr.tempdir # <<>> THEN pr.tempdir ELSE _tempdir
        copy == HasChar(pr.flags, _copy_chr)
        seen == [NoLast EXCEPT !.flags = pr.flags, !.pattern = pr.pattern,
                               !.copy = copy]
        out == [pc |-> "read", st |-> st, archive |-> _archive,
                tempdirs |-> tds, tempdir |-> td, last |-> seen]
    IN  IF ~pr.ok
        \* parseLine has called updateStatus(1) and returned ''; unpacking it
        \* into (flags, pattern) raises ValueError, which no handler catches
        THEN [out EXCEPT !.pc = "crashed", !.st = updateStatus(st, 1),
                         !.last = [seen EXCEPT !.result = "crash"]]
        ELSE IF pr.pattern = <<>>
        THEN [out EXCEPT !.last = [seen EXCEPT !.result = "skip"]]
        ELSE TarfLine_implied(out, st, seen, copy, td, ImpliedTarf(pr.pattern))

\* tarf processLine(ln): the values it leaves behind.  The current directory is
\* _rundir when it is called (readLines goes back there after every line).
TarfLineOutcome(ln) ==
    TarfLine_parsed(parseLine("tarf", ln),
                    [status |-> _status, num_errors |-> _num_errors])

(***************************************************************************)
(* processLine and purgeMatching of yarf                                   *)
(***************************************************************************)
\* a node and everything below it leave the filesystem
RemoveTree(fsys, n) ==
    [k \in {k \in DOMAIN fsys : ~(Len(k) >= Len(n) /\ Upto(k, Len(n)) = n)} |->
        fsys[k]]

\* walkRemove(top)
walkRemove(fsys, cwd, top) ==
    IF isfile(fsys, cwd, top) \/ islink(fsys, cwd, top)
    THEN RemoveTree(fsys, NodeOf(fsys, cwd, top, FALSE))
    ELSE IF isdir(fsys, cwd, top)
    THEN RemoveTree(fsys, NodeOf(fsys, cwd, top, TRUE))
    ELSE fsys

\* the loop of purgeMatching, lines 302-311
RECURSIVE PurgeLoop(_, _, _, _)
PurgeLoop(fsys, destList, dest, src) ==
    IF destList = <<>> THEN fsys
    ELSE LET entry == Head(destList)
             rel == LStrip(From(entry, Len(dest) + 1), Sep)
         IN  IF exists(fsys, _rundir, join(src, rel))
             THEN PurgeLoop(fsys, Tail(destList), dest, src)
             ELSE PurgeLoop(walkRemove(fsys, _rundir, entry), Tail(destList),
                            dest, src)

\* purgeMatching without the test of _simulate on line 301
purgeList_Always(fsys, simulate, destList, dest, src) ==
    PurgeLoop(fsys, destList, dest, src)

\* purgeMatching(pat, dest, src): the filesystem it leaves
purgeList(fsys, simulate, destList, dest, src) ==
    IF destList = <<>> \/ simulate THEN fsys
    ELSE PurgeLoop(fsys, destList, dest, src)

purgeMatching(fsys, simulate, pat, dest, src) ==
    purgeList(fsys, simulate, glob(fsys, _rundir, join(dest, pat)), dest, src)

\* yarf processLine, lines 270-287: what one entry is queued as under -H
QueueEntryH(fsys, queues, entry, relative) ==
    IF islink(fsys, _rundir, entry) /\ isfile(fsys, _rundir, entry)
    THEN queueAdd(queues, entry, relative, TRUE)
    ELSE IF islink(fsys, _rundir, entry) /\ isdir(fsys, _rundir, entry)
    THEN LET pos == Len(dirname(entry))
             e == IF relative THEN entry
                  ELSE IF pos = 0 THEN <<".">> \o _relative_pat \o entry
                  ELSE normPath(Upto(entry, pos) \o _relative_pat
                                \o From(entry, pos + 1))
         IN  queueAdd(queues, e \o <<Sep>>, TRUE, FALSE)
    ELSE queueAdd(queues, entry, relative, FALSE)

\* yarf processLine, lines 262-287
RECURSIVE QueueAll(_, _, _, _, _, _)
QueueAll(fsys, queues, fileList, relative, deref, local) ==
    IF fileList = <<>> THEN queues
    ELSE LET entry == Head(fileList)
             q == IF ~local \/ deref = "" THEN queueAdd(queues, entry, relative, FALSE)
                  ELSE IF deref = "L" THEN queueAdd(queues, entry, relative, TRUE)
                  ELSE QueueEntryH(fsys, queues, entry, relative)
         IN  QueueAll(fsys, q, Tail(fileList), relative, deref, local)

\* yarf processLine, lines 262-287: the entries are queued
YarfLine_queue(out, resolved, fileList, relative, local, purged) ==
    [out EXCEPT
        !.filesys = purged,
        !.queues = QueueAll(purged, @, fileList, relative, _deref, local),
        !.last = [resolved EXCEPT !.result = "queued", !.globList = fileList]]

\* yarf processLine, lines 247-260: no local match is an error unless the
\* source is remote; then the purge of the destination, then the queueing
YarfLine_glob(out, st, resolved, purge, r, matches) ==
    IF matches = <<>> /\ ~_remote
    THEN [out EXCEPT !.st = updateStatus(st, 1),
                     !.last = [resolved EXCEPT !.result = "nomatch"]]
    ELSE YarfLine_queue(out, resolved,
                        IF matches # <<>> THEN matches ELSE <<r.pattern>>,
                        r.relative, matches # <<>>,
                        IF purge /\ r.implied_pat # <<>>
                        THEN purgeMatching(filesys, _simulate, r.implied_pat,
                                           _dest, r.base)
                        ELSE filesys)

\* yarf processLine, lines 211-247
YarfLine_implied(out, st, seen, purge, r) ==
    IF r.error
    THEN [out EXCEPT !.st = updateStatus(st, 1),
                     !.last = [seen EXCEPT !.implied_pat = r.implied_pat,
                                           !.dir = r.base,
                                           !.result = "noimplied"]]
    ELSE YarfLine_glob(out, st,
                       [seen EXCEPT !.implied_pat = r.implied_pat, !.dir = r.base],
                       purge, r, glob(filesys, _rundir, r.pattern))

\* yarf processLine, lines 185-209, on what parseLine returned
YarfLine_parsed(pr, st) ==
    LET purge == _purge /\ HasChar(pr.flags, _purge_chr)
        seen == [NoLast EXCEPT !.flags = pr.flags, !.pattern = pr.pattern]
        out == [pc |-> "read", st |-> st, queues |-> _queues,
                filesys |-> filesys, last |-> seen]
    IN  IF ~pr.ok
        \* as in tarf: updateStatus(1), then ValueError out of processLine
        THEN [out EXCEPT !.pc = "crashed", !.st = updateStatus(st, 1),
                         !.last = [seen EXCEPT !.result = "crash"]]
        ELSE IF pr.pattern = <<>>
        THEN [out EXCEPT !.last = [seen EXCEPT !.result = "skip"]]
        ELSE IF HasChar(pr.flags, _copy_chr)
        THEN [out EXCEPT !.last = [seen EXCEPT !.result = "unrecognized"]]
        ELSE YarfLine_implied(out, st, seen, purge,
                              ImpliedYarf(pr.pattern, _source))

\* yarf processLine(ln): the values it leaves behind
YarfLineOutcome(ln) ==
    YarfLine_parsed(parseLine("yarf", ln),
                    [status |-> _status, num_errors |-> _num_errors])

(***************************************************************************)
(* Spec: the read loop of readLines (tarf) and readFile (yarf) over a      *)
(* specification file whose lines are drawn from SampleLines               *)
(***************************************************************************)
SampleLines ==
    {
      <<"f">>,                                    \* f
      <<"*">>,                                    \* *
      <<"*", "/">>,                               \* */
      <<"\"", "f">>,                              \* "f
      <<"a", "/", ".", "/", "f">>,                \* a/./f
      <<"a", "/", ".", "/">>,                     \* a/./
      <<"z", "/", "f">>,                          \* z/f
      <<"z", "/", ".", "/">>,                     \* z/./
      <<"!", " ", "a", "/", ".", "/", "*">>,      \* ! a/./*
      <<"!", " ", "e", "/", ".", "/", "*">>,      \* ! e/./*
      <<"%", " ", "f">>,                          \* % f
      <<"#", " ", "%", " ", "b">>,                \* # % b
      <<"%", " ", "f", " ", "#", " ", "%", " ", "b">>   \* % f # % b
    }

Init ==
    /\ PIdle
    /\ CIdle
    /\ LIdle
    /\ variant \in {"tarf", "yarf"}
    /\ _deref \in {"", "L", "H"}
    /\ _simulate \in IF variant = "tarf" THEN {FALSE} ELSE BOOLEAN
    /\ _verbose \in IF _simulate THEN BOOLEAN ELSE {FALSE}
    /\ _remote \in IF variant = "tarf" THEN {FALSE} ELSE BOOLEAN
    /\ _source \in IF variant = "tarf" THEN {<<>>} ELSE {<<>>, SourceDir}
    /\ \E dv \in IF variant = "tarf" THEN {EmptyDest} ELSE DestVariants :
         filesys = MkFS(RunDirEntries \cup dv)
    /\ _purge = (variant = "yarf" /\ exists(filesys, _rundir, _dest)
                 /\ (_verbose \/ ~_simulate))
    /\ pc = "read"
    /\ nlines = 0
    /\ line = <<>>
    /\ _status = 0
    /\ _num_errors = 0
    /\ _queues = EmptyQueues
    /\ _archive = <<>>
    /\ _tempdirs = IF variant = "tarf" THEN setTempdir(<<>>, InputBase) ELSE <<>>
    /\ _tempdir = IF variant = "tarf" THEN InputBase ELSE <<>>
    /\ last = NoLast

\* one pass of the loop of tarf's readLines: processLine(line.strip())
TarfReadLine(ln) ==
    /\ variant = "tarf"
    /\ pc = "read"
    /\ nlines < MaxLines
    /\ LET out == TarfLineOutcome(ln)
       IN  /\ pc' = out.pc
           /\ _status' = out.st.status
           /\ _num_errors' = out.st.num_errors
           /\ _archive' = out.archive
           /\ _tempdirs' = out.tempdirs
           /\ _tempdir' = out.tempdir
           /\ last' = out.last
    /\ line' = ln
    /\ nlines' = nlines + 1
    /\ UNCHANGED <<variant, _deref, _simulate, _verbose, _remote, _source,
                   _purge, filesys, _queues, pvars, cvars, lvars>>

\* one pass of the loop of yarf's readFile: processLine(line.strip())
YarfReadLine(ln) ==
    /\ variant = "yarf"
    /\ pc = "read"
    /\ nlines < MaxLines
    /\ LET out == YarfLineOutcome(ln)
       IN  /\ pc' = out.pc
           /\ _status' = out.st.status
           /\ _num_errors' = out.st.num_errors
           /\ _queues' = out.queues
           /\ filesys' = out.filesys
           /\ last' = out.last
    /\ line' = ln
    /\ nlines' = nlines + 1
    /\ UNCHANGED <<variant, _deref, _simulate, _verbose, _remote, _source,
                   _purge, _archive, _tempdirs, _tempdir, pvars, cvars, lvars>>

\* the file has no more lines: the loop ends
EndOfFile ==
    /\ pc = "read"
    /\ pc' = "eof"
    /\ UNCHANGED <<variant, _deref, _simulate, _verbose, _remote, _source,
                   _purge, filesys, nlines, line, _status, _num_errors,
                   _queues, _archive, _tempdirs, _tempdir, last,
                   pvars, cvars, lvars>>

Next ==
    \/ \E ln \in SampleLines : TarfReadLine(ln)
    \/ \E ln \in SampleLines : YarfReadLine(ln)
    \/ EndOfFile

Spec == Init /\ [][Next]_vars

(***************************************************************************)
(* SpecCommit: what main does once the specification file has been read:   *)
(* tarf commits the staging groups and the archive, compresses it and      *)
(* cleans up; yarf hands its queues to rsync.  A handled signal may arrive *)
(* at any point before main's finally clause.  The destination holds no    *)
(* file of the names the run uses (SpecDrain and SpecDest lift this), and  *)
(* remove() of what the run has made does not fail.                        *)
(***************************************************************************)
SIGHUP == 1
SIGINT == 2
SIGQUIT == 3
SIGABRT == 6
SIGTERM == 15

\* the signals main installs the handler for, in the order it does
signals == <<SIGINT, SIGQUIT, SIGABRT, SIGHUP, SIGTERM>>

\* the local variable signum of main when its finally clause runs: what the
\* loop that installs the handlers left in it
signum == signals[Len(signals)]

\* proc.poll() of a child that was killed by signal 9: the negated number of
\* the signal
Killed == 0 - 9

\* the exit codes of the external tools
ExitCodes == {0, 1, 2, Killed}

\* buckets the read loop leaves: base directory, follow flag, entries
BucketF == [base |-> _rundir, follow |-> FALSE, srcList |-> << <<"f">> >>]
BucketL == [base |-> _rundir, follow |-> TRUE, srcList |-> << <<"l">> >>]

ArchiveChoices == { <<>>, <<BucketF>>, <<BucketF, BucketL>> }

TempdirChoices ==
    { InputBase :> <<>>,
      InputBase :> <<BucketF>>,
      InputBase :> <<BucketF, BucketL>>,
      (InputBase :> <<BucketF>>) @@ (<<"b">> :> <<BucketL>>) }

QueueChoices ==
    { [k \in DOMAIN EmptyQueues |-> IF k \in ks THEN << <<"f">> >> ELSE <<>>] :
        ks \in SUBSET DOMAIN EmptyQueues }

\* the order in which the names of the staging groups are listed
TempdirOrder == << <<"b">>, <<"c">> >>

CInit ==
    /\ PIdle
    /\ LIdle
    /\ variant \in {"tarf", "yarf"}
    /\ _deref = "" /\ _remote = FALSE /\ _source = <<>> /\ _purge = FALSE
    /\ _simulate \in BOOLEAN
    /\ _verbose \in IF variant = "yarf" THEN BOOLEAN ELSE {FALSE}
    /\ filesys = MkFS(RunDirEntries \cup EmptyDest)
    /\ pc = "commit" /\ nlines = 0 /\ line = <<>> /\ last = NoLast
    /\ _status \in {0, 1}
    /\ _num_errors = _status
    /\ _queues \in IF variant = "yarf" THEN QueueChoices ELSE {EmptyQueues}
    /\ _archive \in IF variant = "tarf" THEN ArchiveChoices ELSE {<<>>}
    /\ _tempdirs \in IF variant = "tarf" THEN TempdirChoices ELSE {<<>>}
    /\ _tempdir = IF variant = "tarf" THEN InputBase ELSE <<>>
    /\ _compress \in IF variant = "tarf" THEN BOOLEAN ELSE {FALSE}
    /\ final_name \in IF variant = "yarf" THEN {ArchiveName}
                      ELSE IF _compress THEN {CompressedName}
                      ELSE {ArchiveName, CompressedName}
    /\ a_status = "None" /\ a_path = ArchiveName /\ a_done = FALSE
    /\ td_status = [k \in DOMAIN _tempdirs |-> "None"]
    /\ td_left = {}
    /\ coll = <<>> /\ idx = 0 /\ disk = {} /\ old = {} /\ _children = {}
    /\ received = 0 /\ at_signal = {} /\ sent = {} /\ exit_status = 0
    /\ dispatched = <<>>

\* what no step of the commit phase changes
CFrame ==
    UNCHANGED <<pvars, lvars, variant, _deref, _simulate, _verbose, _remote, _source,
                _purge, filesys, nlines, line, last, _queues, _tempdir,
                _compress, final_name, received, at_signal, sent>>

\* updateStatus(code) on _status and _num_errors
SetStatus(code) ==
    /\ _status' = updateStatus([status |-> _status, num_errors |-> _num_errors],
                               code).status
    /\ _num_errors' = updateStatus([status |-> _status, num_errors |-> _num_errors],
                                   code).num_errors

\* tarf readFile, line 564, and yarf main, line 602: the file has been read
CommitBegin ==
    /\ UNCHANGED old
    /\ pc = "commit"
    /\ IF variant = "tarf"
       THEN /\ pc' = IF _simulate THEN "rf_cleanup" ELSE "tds"
            /\ td_left' = DOMAIN _tempdirs
            /\ idx' = idx
       ELSE /\ pc' = IF _verbose /\ _simulate THEN "return" ELSE "rs"
            /\ idx' = 1
            /\ td_left' = td_left
    /\ UNCHANGED <<_status, _num_errors, _archive, _tempdirs, a_status, a_path,
                   a_done, td_status, coll, disk, _children, exit_status,
                   dispatched>>
    /\ CFrame

\* path.exists(p) for a path under the destination
onDisk(p) == p \in disk \cup old

\* FileCollection.commit and Tempdir.prep for the next staging group that
\* all(td.commit() for td in _tempdirs) comes to.  A group that is not in the
\* state None is not committed; a group without entries is committed at once.
\* Else safeRemove(self.path) asks before it removes what is at the path, and
\* the directory is made, or cannot be made.
TdCommit(name) ==
    /\ pc = "tds"
    /\ name \in td_left
    /\ td_left' = td_left \ {name}
    /\ \/ /\ td_status[name] # "None"
          /\ pc' = "rf_cleanup"
          /\ UNCHANGED <<td_status, disk, old, coll, idx, _status, _num_errors>>
       \/ /\ td_status[name] = "None"
          /\ _tempdirs[name] = <<>>
          /\ UNCHANGED <<pc, td_status, disk, old, coll, idx, _status, _num_errors>>
       \* nothing at the path, or the user agrees and it is removed; mkdir
       \/ /\ td_status[name] = "None"
          /\ _tempdirs[name] # <<>>
          /\ td_status' = [td_status EXCEPT ![name] = "True"]
          /\ disk' = disk \cup {name}
          /\ old' = old \ {name}
          /\ coll' = name
          /\ idx' = 1
          /\ pc' = "td_spawn"
          /\ UNCHANGED <<_status, _num_errors>>
       \* the same, but mkdir raises OSError
       \/ /\ td_status[name] = "None"
          /\ _tempdirs[name] # <<>>
          /\ td_status' = [td_status EXCEPT ![name] = "False"]
          /\ SetStatus(1)
          /\ pc' = "rf_cleanup"
          /\ disk' = disk \ {name}
          /\ old' = old \ {name}
          /\ UNCHANGED <<coll, idx>>
       \* the user does not agree to the removal of what is at the path
       \/ /\ td_status[name] = "None"
          /\ _tempdirs[name] # <<>>
          /\ onDisk(name)
          /\ td_status' = [td_status EXCEPT ![name] = "False"]
          /\ pc' = "rf_cleanup"
          /\ UNCHANGED <<disk, old, coll, idx, _status, _num_errors>>
       \* the user agrees, and walkRemove raises OSError
       \/ /\ td_status[name] = "None"
          /\ _tempdirs[name] # <<>>
          /\ onDisk(name)
          /\ td_status' = [td_status EXCEPT ![name] = "False"]
          /\ SetStatus(1)
          /\ pc' = "rf_cleanup"
          /\ UNCHANGED <<disk, old, coll, idx>>
    /\ UNCHANGED <<_archive, _tempdirs, a_status, a_path, a_done, _children,
                   exit_status, dispatched>>
    /\ CFrame

\* tarf readFile, lines 566-567: every staging group is committed; the names
\* of those on disk are added to the archive
TdsDone ==
    /\ UNCHANGED old
    /\ pc = "tds"
    /\ td_left = {}
    /\ _archive' = add(_archive,
                       SelectSeq(TempdirOrder,
                                 LAMBDA n : /\ n \in DOMAIN td_status
                                            /\ td_status[n] = "True"),
                       _dest, FALSE)
    /\ pc' = "ar_commit"
    /\ UNCHANGED <<_status, _num_errors, _tempdirs, a_status, a_path, a_done,
                   td_status, td_left, coll, idx, disk, _children, exit_status,
                   dispatched>>
    /\ CFrame

\* FileCollection.commit for the archive, lines 245-251: an archive that is
\* not in the state None is not committed; without buckets it is committed at
\* once (and compressAndReplace has nothing to do); else prep asks before it
\* removes what is at the path of the archive
ArCommit ==
    /\ pc = "ar_commit"
    /\ \/ /\ a_status # "None"
          /\ pc' = "rf_cleanup"
          /\ UNCHANGED <<a_status, a_done, coll, idx, disk, old, _status,
                         _num_errors>>
       \/ /\ a_status = "None"
          /\ _archive = <<>>
          /\ a_done' = TRUE
          /\ pc' = "rf_cleanup"
          /\ UNCHANGED <<a_status, coll, idx, disk, old, _status, _num_errors>>
       \* nothing at the path, or the user agrees and it is removed
       \/ /\ a_status = "None"
          /\ _archive # <<>>
          /\ disk' = disk \ {a_path}
          /\ old' = old \ {a_path}
          /\ coll' = <<"_archive">>
          /\ idx' = 1
          /\ pc' = "ar_spawn"
          /\ UNCHANGED <<a_status, a_done, _status, _num_errors>>
       \* the user does not agree
       \/ /\ a_status = "None"
          /\ _archive # <<>>
          /\ onDisk(a_path)
          /\ a_status' = "False"
          /\ pc' = "rf_cleanup"
          /\ UNCHANGED <<a_done, coll, idx, disk, old, _status, _num_errors>>
       \* the user agrees, and walkRemove raises OSError
       \/ /\ a_status = "None"
          /\ _archive # <<>>
          /\ onDisk(a_path)
          /\ a_status' = "False"
          /\ SetStatus(1)
          /\ pc' = "rf_cleanup"
          /\ UNCHANGED <<a_done, coll, idx, disk, old>>
    /\ UNCHANGED <<_archive, _tempdirs, a_path, td_status, td_left, _children,
                   exit_status, dispatched>>
    /\ CFrame

\* yarf main, lines 603-604, and rsyncList: the next queue; an empty one is
\* passed over
RsNext ==
    /\ UNCHANGED old
    /\ pc = "rs"
    /\ IF idx > Len(QueueKeys)
       THEN pc' = "return" /\ UNCHANGED <<idx, coll>>
       ELSE IF _queues[QueueKeys[idx]] = <<>>
       THEN idx' = idx + 1 /\ UNCHANGED <<pc, coll>>
       ELSE pc' = "rs_spawn" /\ coll' = <<"_queues">> /\ idx' = idx
    /\ UNCHANGED <<_status, _num_errors, _archive, _tempdirs, a_status, a_path,
                   a_done, td_status, td_left, disk, _children, exit_status,
                   dispatched>>
    /\ CFrame

\* the tool a position of the program runs
ToolAt(at) ==
    IF at \in {"td_spawn", "td_run"} THEN "cp"
    ELSE IF at \in {"ar_spawn", "ar_run"} THEN "tar"
    ELSE IF at \in {"cz_spawn", "cz_run"} THEN "compress"
    ELSE "rsync"

RunAt(at) ==
    IF at = "td_spawn" THEN "td_run"
    ELSE IF at = "ar_spawn" THEN "ar_run"
    ELSE IF at = "cz_spawn" THEN "cz_run"
    ELSE "rs_run"

\* the command line a position of the program starts, were every bucket of
\* the archive given to _tar_create
CommandAt_AlwaysCreate(at) ==
    IF at = "ar_spawn" THEN "_tar_create" ELSE ToolAt(at)

\* the command line a position of the program starts: Archive.checkedCommit,
\* lines 296-304, takes _tar_create while the status of the archive is None
\* and _tar_append otherwise
CommandAt(at) ==
    IF at = "ar_spawn"
    THEN IF a_status = "None" THEN "_tar_create" ELSE "_tar_append"
    ELSE ToolAt(at)

\* runProc, lines 198-205: Popen starts the tool and communicate waits for it
Spawn ==
    /\ UNCHANGED old
    /\ pc \in {"td_spawn", "ar_spawn", "cz_spawn", "rs_spawn"}
    /\ _children' = _children \cup {ToolAt(pc)}
    /\ dispatched' = Append(dispatched, [coll |-> coll, idx |-> idx, code |-> -1,
                                          cmd |-> CommandAt(pc)])
    /\ pc' = RunAt(pc)
    /\ UNCHANGED <<_status, _num_errors, _archive, _tempdirs, a_status, a_path,
                   a_done, td_status, td_left, coll, idx, disk, exit_status>>
    /\ CFrame

\* SpawnFails for a runProc that counts the missing tool as one more error and
\* goes on to the end of the run
SpawnFails_NonFatal ==
    /\ UNCHANGED old
    /\ pc \in {"td_spawn", "ar_spawn", "cz_spawn", "rs_spawn"}
    /\ SetStatus(1)
    /\ pc' = IF variant = "tarf" THEN "rf_cleanup" ELSE "return"
    /\ UNCHANGED <<_archive, _tempdirs, a_status, a_path, a_done, td_status,
                   td_left, coll, idx, disk, _children, exit_status, dispatched>>
    /\ CFrame

\* runProc, lines 198-203: Popen raises OSError, runProc raises Fatal(127),
\* main's except clause returns its status
SpawnFails ==
    /\ UNCHANGED old
    /\ pc \in {"td_spawn", "ar_spawn", "cz_spawn", "rs_spawn"}
    /\ exit_status' = 127
    /\ pc' = "finally"
    /\ UNCHANGED <<_status, _num_errors, _archive, _tempdirs, a_status, a_path,
                   a_done, td_status, td_left, coll, idx, disk, _children,
                   dispatched>>
    /\ CFrame

\* the tar subprocess that creates the archive writes the file
ChildWrites ==
    /\ UNCHANGED old
    /\ pc = "ar_run"
    /\ idx = 1
    /\ ArchiveName \notin disk
    /\ disk' = disk \cup {ArchiveName}
    /\ UNCHANGED <<pc, _status, _num_errors, _archive, _tempdirs, a_status,
                   a_path, a_done, td_status, td_left, coll, idx, _children,
                   exit_status, dispatched>>
    /\ CFrame

\* the loops of Archive.checkedCommit and Tempdir.checkedCommit after the
\* subprocess for bucket i of n has ended with an exit code: "next" bucket,
\* or the commit "fails", or it is "done"; here the loop goes on regardless
checkedCommitNext_Continue(code, i, n) ==
    IF i < n THEN "next" ELSE IF code # 0 THEN "fails" ELSE "done"

\* the loops of Archive.checkedCommit and Tempdir.checkedCommit after the
\* subprocess for bucket i of n has ended with an exit code: "next" bucket,
\* or the commit "fails", or it is "done"
checkedCommitNext(code, i, n) ==
    IF code # 0 THEN "fails" ELSE IF i < n THEN "next" ELSE "done"

\* runProc, lines 206-212, when the subprocess has ended with an exit code
Reaped(code) ==
    /\ _children' = {}
    /\ dispatched' = [dispatched EXCEPT ![Len(dispatched)].code = code]
    /\ IF code # 0 THEN SetStatus(code) ELSE UNCHANGED <<_status, _num_errors>>

\* Tempdir.checkedCommit, lines 384-390, after the cp subprocess has ended
CpExit(code) ==
    /\ UNCHANGED old
    /\ pc = "td_run"
    /\ Reaped(code)
    /\ LET go == checkedCommitNext(code, idx, Len(_tempdirs[coll]))
       IN  /\ pc' = IF go = "fails" THEN "rf_cleanup"
                    ELSE IF go = "next" THEN "td_spawn" ELSE "tds"
           /\ idx' = IF go = "next" THEN idx + 1 ELSE idx
    /\ UNCHANGED <<_archive, _tempdirs, a_status, a_path, a_done, td_status,
                   td_left, coll, disk, exit_status>>
    /\ CFrame

\* Archive.checkedCommit, lines 297-309, after the tar subprocess has ended;
\* a tar that ends with exit code 0 has written the archive
TarExit(code) ==
    /\ UNCHANGED old
    /\ pc = "ar_run"
    /\ code = 0 => ArchiveName \in disk
    /\ Reaped(code)
    /\ a_status' = IF a_status # "None" THEN a_status
                   ELSE IF onDisk(a_path) THEN "True" ELSE "False"
    /\ LET go == checkedCommitNext(code, idx, Len(_archive))
       IN  /\ pc' = IF go = "fails" THEN "rf_cleanup"
                    ELSE IF go = "next" THEN "ar_spawn" ELSE "compress"
           /\ idx' = IF go = "next" THEN idx + 1 ELSE idx
    /\ UNCHANGED <<_archive, _tempdirs, a_path, a_done, td_status, td_left, coll,
                   disk, exit_status>>
    /\ CFrame

\* Archive.compressAndReplace, lines 311-324 and 343-359, up to the start of
\* the compressor.  There is nothing to do for an archive that is not
\* committed or that has its final name already.  Else safeRemove asks before
\* it removes what is at the final name; then the compressed file is opened
\* for writing, or the archive is renamed to its final name (which may fail).
CompressAndReplace ==
    /\ pc = "compress"
    /\ \/ /\ a_status = "True" /\ _compress
          /\ disk' = disk \cup {final_name}
          /\ old' = old \ {final_name}
          /\ coll' = <<"_archive">>
          /\ idx' = 0
          /\ pc' = "cz_spawn"
          /\ UNCHANGED <<a_path, a_done, _status, _num_errors>>
       \/ /\ a_status = "True" /\ ~_compress /\ final_name # ArchiveName
          /\ disk' = (disk \ {a_path}) \cup {final_name}
          /\ old' = old \ {final_name}
          /\ a_path' = final_name
          /\ a_done' = TRUE
          /\ pc' = "rf_cleanup"
          /\ UNCHANGED <<coll, idx, _status, _num_errors>>
       \/ /\ a_status = "True" /\ ~_compress /\ final_name # ArchiveName
          /\ old' = old \ {final_name}
          /\ SetStatus(1)
          /\ pc' = "rf_cleanup"
          /\ UNCHANGED <<coll, idx, disk, a_path, a_done>>
       \* the user does not agree to the removal of what is at the final name
       \/ /\ a_status = "True" /\ (_compress \/ final_name # ArchiveName)
          /\ onDisk(final_name)
          /\ pc' = "rf_cleanup"
          /\ UNCHANGED <<coll, idx, disk, old, a_path, a_done, _status,
                         _num_errors>>
       \* the user agrees, and walkRemove raises OSError
       \/ /\ a_status = "True" /\ (_compress \/ final_name # ArchiveName)
          /\ onDisk(final_name)
          /\ SetStatus(1)
          /\ pc' = "rf_cleanup"
          /\ UNCHANGED <<coll, idx, disk, old, a_path, a_done>>
       \/ /\ a_status # "True" \/ (~_compress /\ final_name = ArchiveName)
          /\ a_done' = TRUE
          /\ pc' = "rf_cleanup"
          /\ UNCHANGED <<coll, idx, disk, old, a_path, _status, _num_errors>>
    /\ UNCHANGED <<_archive, _tempdirs, a_status, td_status, td_left, _children,
                   exit_status, dispatched>>
    /\ CFrame

\* Archive.compressAndReplace, lines 325-336, after the compressor has ended:
\* the archive is removed and the compressed file takes its place
CompressExit(code) ==
    /\ pc = "cz_run"
    /\ Reaped(code)
    /\ disk' = disk \ {a_path}
    /\ old' = old \ {a_path}
    /\ a_path' = final_name
    /\ a_done' = (code = 0)
    /\ pc' = "rf_cleanup"
    /\ UNCHANGED <<_archive, _tempdirs, a_status, td_status, td_left, coll, idx,
                   exit_status>>
    /\ CFrame

\* yarf rsyncList after the rsync subprocess has ended
RsyncExit(code) ==
    /\ UNCHANGED old
    /\ pc = "rs_run"
    /\ Reaped(code)
    /\ idx' = idx + 1
    /\ pc' = "rs"
    /\ UNCHANGED <<_archive, _tempdirs, a_status, a_path, a_done, td_status,
                   td_left, coll, disk, exit_status>>
    /\ CFrame

\* cleanup(), were remove() not to look at the status of the collection
cleanup_Unconditional(dsk) ==
    (IF ~a_done THEN dsk \ {a_path} ELSE dsk) \ DOMAIN _tempdirs

\* cleanup(): what is on disk after it
cleanup(dsk) ==
    (IF ~a_done /\ a_status = "True" THEN dsk \ {a_path} ELSE dsk)
        \ {n \in DOMAIN _tempdirs : td_status[n] = "True"}

\* tarf readFile, lines 581-582: cleanup() and _tempdirs.clear()
ReadFileCleanup ==
    /\ pc = "rf_cleanup"
    /\ disk' = cleanup(disk)
    /\ old' = cleanup(old)
    /\ _tempdirs' = <<>>
    /\ pc' = "return"
    /\ UNCHANGED <<_status, _num_errors, _archive, a_status, a_path, a_done,
                   td_status, td_left, coll, idx, _children, exit_status,
                   dispatched>>
    /\ CFrame

\* main: return _status
Return ==
    /\ UNCHANGED old
    /\ pc = "return"
    /\ exit_status' = _status
    /\ pc' = "finally"
    /\ UNCHANGED <<_status, _num_errors, _archive, _tempdirs, a_status, a_path,
                   a_done, td_status, td_left, coll, idx, disk, _children,
                   dispatched>>
    /\ CFrame

\* handler(signum, frame) raises Exit(signum, msg) wherever main's try block
\* is; main's except clause returns e.status
Signal(sig) ==
    /\ UNCHANGED old
    /\ pc \notin {"finally", "fin_cleanup", "exited"}
    /\ received = 0
    /\ received' = sig
    /\ at_signal' = _children
    /\ exit_status' = sig
    /\ pc' = "finally"
    /\ UNCHANGED <<pvars, lvars, variant, _deref, _simulate, _verbose, _remote, _source,
                   _purge, filesys, nlines, line, last, _queues, _tempdir,
                   _compress, final_name, sent>>
    /\ UNCHANGED <<_status, _num_errors, _archive, _tempdirs, a_status, a_path,
                   a_done, td_status, td_left, coll, idx, disk, _children,
                   dispatched>>

\* main's finally clause, first statement: proc.send_signal(signum) for every
\* proc in _children
FinallyForward ==
    /\ UNCHANGED old
    /\ pc = "finally"
    /\ sent' = sent \cup {<<c, signum>> : c \in _children}
    /\ pc' = IF variant = "tarf" THEN "fin_cleanup" ELSE "exited"
    /\ UNCHANGED <<pvars, lvars, variant, _deref, _simulate, _verbose, _remote, _source,
                   _purge, filesys, nlines, line, last, _queues, _tempdir,
                   _compress, final_name, received, at_signal>>
    /\ UNCHANGED <<_status, _num_errors, _archive, _tempdirs, a_status, a_path,
                   a_done, td_status, td_left, coll, idx, disk, _children,
                   exit_status, dispatched>>

\* tarf main's finally clause, second statement: cleanup()
FinallyCleanup ==
    /\ pc = "fin_cleanup"
    /\ disk' = cleanup(disk)
    /\ old' = cleanup(old)
    /\ pc' = "exited"
    /\ UNCHANGED <<_status, _num_errors, _archive, _tempdirs, a_status, a_path,
                   a_done, td_status, td_left, coll, idx, _children, exit_status,
                   dispatched>>
    /\ CFrame

CNext ==
    \/ CommitBegin
    \/ \E name \in DOMAIN _tempdirs : TdCommit(name)
    \/ TdsDone
    \/ ArCommit
    \/ RsNext
    \/ Spawn
    \/ SpawnFails
    \/ ChildWrites
    \/ \E code \in ExitCodes : CpExit(code)
    \/ \E code \in ExitCodes : TarExit(code)
    \/ CompressAndReplace
    \/ \E code \in ExitCodes : CompressExit(code)
    \/ \E code \in ExitCodes : RsyncExit(code)
    \/ ReadFileCleanup
    \/ Return
    \/ \E i \in 1..Len(signals) : Signal(signals[i])
    \/ FinallyForward
    \/ FinallyCleanup

SpecCommit == CInit /\ [][CNext]_vars

(***************************************************************************)
(* SpecPattern: parseLine and the implied-part block of processLine on     *)
(* every line of the bounded alphabets, for both programs                  *)
(***************************************************************************)
PathAlphabet == {Sep, ".", "a", "*"}
TextAlphabet == {DQ, BSL, HASH, "a", Sep, " "}

\* readLines / readFile hand processLine(line.strip())
GlobAlphabet == {BSL, "*", "[", "]", "a", Sep}

FlagAlphabet == {"!", "~", DQ, "a", Sep}

PatLines ==
    {s \in Strs(PathAlphabet, MaxPathLen) \cup Strs(TextAlphabet, MaxTextLen)
            \cup Strs(GlobAlphabet, MaxTextLen)
            \cup Strs(FlagAlphabet, MaxTextLen) :
        Strip(s) = s}

PInit ==
    /\ p_variant \in {"tarf", "yarf"}
    /\ p_source \in IF p_variant = "tarf" THEN {<<>>} ELSE {<<>>, SourceDir}
    /\ p_line \in PatLines
    /\ p_pc = "raw"
    /\ p_parsed = NoParse
    /\ p_res = NoRes
    /\ RIdle
    /\ CIdle
    /\ LIdle

\* flags, pattern = parseLine(line)
PParse ==
    /\ p_pc = "raw"
    /\ p_parsed' = parseLine(p_variant, p_line)
    /\ p_pc' = "parsed"
    /\ UNCHANGED <<p_variant, p_line, p_res, p_source, rvars, cvars, lvars>>

\* processLine from "if not pattern" down to the max(..., key=len) line and the
\* slice that follows it
PResolve ==
    /\ p_pc = "parsed"
    /\ p_parsed.ok
    /\ p_parsed.pattern # <<>>
    /\ ~HasChar(p_parsed.flags, _link_chr)
    /\ ~(p_variant = "yarf" /\ HasChar(p_parsed.flags, _copy_chr))
    /\ p_res' = IF p_variant = "tarf"
                THEN ImpliedTarf(p_parsed.pattern)
                ELSE ImpliedYarf(p_parsed.pattern, p_source)
    /\ p_pc' = "resolved"
    /\ UNCHANGED <<p_variant, p_line, p_parsed, p_source, rvars, cvars, lvars>>

PNext == PParse \/ PResolve

SpecPattern == PInit /\ [][PNext]_vars

(***************************************************************************)
(* Claims about the implied part                                           *)
(***************************************************************************)
\* indices at which the structure marker "/./" occurs in s
MarkerIndices(s) == {i \in 1..Len(s) : OccursAt(s, _relative_pat, i)}

AfterLastMarker(s) ==
    LET i == CHOOSE i \in MarkerIndices(s) : \A j \in MarkerIndices(s) : j <= i
    IN  From(s, i + 3)

AfterFirstMarker(s) ==
    LET i == CHOOSE i \in MarkerIndices(s) : \A j \in MarkerIndices(s) : i <= j
    IN  From(s, i + 3)

\* the basename, or the parent directory's basename plus a separator when the
\* pattern ends in a separator (nothing for a pattern made of separators only)
BasenameFallback(s) ==
    LET t == RStrip(s, Sep)
    IN  IF s = <<>> \/ s[Len(s)] # Sep THEN From(s, RFind(s, Sep) + 1)
        ELSE IF t = <<>> THEN <<>>
        ELSE From(t, RFind(t, Sep) + 1) \o <<Sep>>

\* indices of the glob constructs of s that no backslash escapes
UnescapedGlobIndices(s) ==
    {j \in 1..Len(s) :
        /\ GlobConstructAt(s, j)
        /\ \E a \in 1..j :
             /\ \A k \in a..(j - 1) : s[k] = BSL
             /\ (a = 1 \/ s[a - 1] # BSL)
             /\ (j - a) % 2 = 0}

\* the path segment that holds the first glob construct, through the end
GlobSuffix(s) ==
    LET G == UnescapedGlobIndices(s)
    IN  IF G = {} THEN <<>>
        ELSE LET j == CHOOSE j \in G : \A k \in G : j <= k
                 seps == {k \in 1..j : s[k] = Sep}
                 start == IF seps = {} THEN 1
                          ELSE 1 + CHOOSE k \in seps : \A m \in seps : m <= k
             IN  From(s, start)

Resolved == p_pc = "resolved"

\* C4 as stated: for a normalized pattern that contains the marker, the implied
\* path is the text strictly after the LAST occurrence of the marker
C4_AfterLastMarker ==
    (Resolved /\ MarkerIndices(p_parsed.pattern) # {})
        => p_res.implied_pat = AfterLastMarker(p_parsed.pattern)

\* C4 amended: for a normalized pattern that contains the marker, the implied
\* path is the text strictly after the FIRST occurrence of the marker, unless
\* the glob-derived suffix is longer, in which case it is that suffix
C4_AfterFirstMarker ==
    (Resolved /\ MarkerIndices(p_parsed.pattern) # {})
        => p_res.implied_pat =
              IF Len(GlobSuffix(p_parsed.pattern)) > Len(AfterFirstMarker(p_parsed.pattern))
              THEN GlobSuffix(p_parsed.pattern)
              ELSE AfterFirstMarker(p_parsed.pattern)

\* a pattern with two markers has been resolved, and its implied path is the
\* text after the first of them, which differs from the text after the last
C4_Witness ==
    /\ Resolved
    /\ Cardinality(MarkerIndices(p_parsed.pattern)) = 2
    /\ p_res.implied_pat = AfterFirstMarker(p_parsed.pattern)
    /\ p_res.implied_pat # AfterLastMarker(p_parsed.pattern)

\* C5: the final implied path is the longer of the marker-derived suffix (the
\* basename fallback when the pattern has no marker) and the glob-derived
\* suffix, the marker-derived one on equal length, and it is never longer than
\* the pattern
C5_LongerOfMarkerAndGlob ==
    Resolved =>
        LET P == p_parsed.pattern
            m == IF MarkerIndices(P) # {} THEN AfterFirstMarker(P)
                 ELSE BasenameFallback(P)
            g == GlobSuffix(P)
        IN  /\ p_res.implied_pat = IF Len(g) > Len(m) THEN g ELSE m
            /\ Len(p_res.implied_pat) <= Len(P)

\* a pattern whose glob-derived suffix is strictly longer than its
\* marker-derived suffix has been resolved, and the glob-derived one was chosen
C5_Witness ==
    /\ Resolved
    /\ MarkerIndices(p_parsed.pattern) # {}
    /\ Len(GlobSuffix(p_parsed.pattern)) > Len(AfterFirstMarker(p_parsed.pattern))
    /\ AfterFirstMarker(p_parsed.pattern) # <<>>
    /\ p_res.implied_pat = GlobSuffix(p_parsed.pattern)

(***************************************************************************)
(* Claims about the read loop (Spec)                                       *)
(***************************************************************************)
\* a step of the read loop that has just processed a line
LineRead == pc = "read" /\ nlines' = nlines + 1

\* the entries of all buckets, of either variant
Buckets == <<_queues, _archive, [k \in DOMAIN _tempdirs |-> _tempdirs[k]]>>

\* C3: a line with an unterminated double quote is a non-fatal syntax error:
\* the error count goes up by one, no bucket gets an entry, and the loop goes
\* on to the next line (the run is not aborted)
C3_UnterminatedQuoteSkipped ==
    [][(LineRead /\ ~parseLine(variant, line').ok)
          => /\ _num_errors' = _num_errors + 1
             /\ Buckets' = Buckets
             /\ pc' = "read"]_vars

\* C6: in tarf the directory of the glob expansion, which keys the bucket, is
\* the pattern with its implied-path suffix removed (also when the implied
\* path is empty), and a line whose base is no existing directory is skipped
\* with a counted "no matches" error
C6_BaseIsPatternMinusImplied ==
    (variant = "tarf" /\ last.result \in {"nodir", "nomatch", "queued"})
        => LET base == Upto(last.pattern, Len(last.pattern) - Len(last.implied_pat))
           IN  /\ base \o last.implied_pat = last.pattern
               /\ last.dir = abspath(_rundir, base)
               /\ ~isdir(filesys, _rundir, abspath(_rundir, base))
                     => last.result = "nodir"

\* C9: under follow policy "none" every entry of the glob expansion is added
\* as it is to the bucket that is not dereferenced: nothing is marked for
\* dereference, nothing is replaced by the contents of a directory
C9_NoneAddsAsIs ==
    (_deref = "" /\ last.result = "queued")
        => /\ \A k \in DOMAIN _queues : k[2] => _queues[k] = <<>>
           /\ \A i \in 1..Len(_archive) : ~_archive[i].follow
           /\ \A k \in DOMAIN _tempdirs :
                 \A i \in 1..Len(_tempdirs[k]) : ~_tempdirs[k][i].follow
           /\ variant = "tarf" => /\ last.derefList = <<>>
                                  /\ last.fileList = last.globList

\* the immediate children of the directory an entry names, as paths
Children(entry) ==
    LET names == listdir(filesys, last.dir, entry)
    IN  [i \in 1..Len(names) |-> join(entry, names[i])]

\* where C10 wants one glob match to go under -H
C10_Expected(entry) ==
    IF islink(filesys, last.dir, entry) \/ EndsWith(entry, <<Sep>>)
    THEN IF isfile(filesys, last.dir, entry) THEN [f |-> <<>>, d |-> <<entry>>]
         ELSE IF isdir(filesys, last.dir, entry)
              THEN IF Children(entry) # <<>>
                   THEN [f |-> Children(entry), d |-> <<>>]
                   ELSE [f |-> <<>>, d |-> <<entry>>]
         ELSE [f |-> <<entry>>, d |-> <<>>]
    ELSE [f |-> <<entry>>, d |-> <<>>]

RECURSIVE C10_ExpectedLists(_)
C10_ExpectedLists(globList) ==
    IF globList = <<>> THEN [fileList |-> <<>>, derefList |-> <<>>]
    ELSE LET c == C10_Expected(Head(globList))
             r == C10_ExpectedLists(Tail(globList))
         IN  [fileList |-> c.f \o r.fileList, derefList |-> c.d \o r.derefList]

\* C10: in tarf under -H a match that is a symlink or ends in a separator goes
\* to the dereference list when it resolves to a regular file, is replaced by
\* its immediate children when it resolves to a directory (by itself in the
\* dereference list when it has no children), and is added as it is when it
\* is a broken link; any other match is added as it is
C10_SymlinkedOnlyClassification ==
    (variant = "tarf" /\ _deref = "H" /\ last.result = "queued")
        => /\ last.fileList = C10_ExpectedLists(last.globList).fileList
           /\ last.derefList = C10_ExpectedLists(last.globList).derefList

\* the step of yarf's read loop on a purge-flagged line, with a destination
\* that exists and a run that is no simulation
C2_PurgeStep ==
    /\ LineRead
    /\ variant = "yarf" /\ _purge /\ ~_simulate
    /\ HasChar(last'.flags, _purge_chr)
    /\ last'.result \in {"nomatch", "queued"}
    /\ last'.implied_pat # <<>>

\* C2: on a purge-flagged line every destination entry that matches the
\* implied pattern under the destination root is deleted if and only if no
\* path of the same name exists under the effective source root
C2_PurgeIffNoCounterpart ==
    [][C2_PurgeStep
          => LET destList == glob(filesys, _rundir, join(_dest, last'.implied_pat))
                 root == IF _source # <<>> THEN _source ELSE last'.dir
             IN  \A i \in 1..Len(destList) :
                    LET rel == LStrip(From(destList[i], Len(_dest) + 1), Sep)
                    IN  ~lexists(filesys', _rundir, destList[i])
                           <=> ~exists(filesys, _rundir, join(root, rel))]_vars

(***************************************************************************)
(* Claims about the commit phase (SpecCommit)                              *)
(***************************************************************************)
\* C1: in tarf, when the run was aborted by a signal or a commit or compress
\* step failed, wherever that happened, the cleanup pass leaves on disk no
\* archive and no staging directory that the run created and did not fully
\* commit
C1_NoPartialArtifacts ==
    (variant = "tarf" /\ pc = "exited" /\ (received # 0 \/ ~a_done))
        => disk \subseteq (IF a_done THEN {a_path} ELSE {})

\* bucket i of a collection has been handed to its tool
Dispatched(c, i) ==
    \E j \in 1..Len(dispatched) : dispatched[j].coll = c /\ dispatched[j].idx = i

\* every non-empty bucket of the run has been handed to its tool
AllDispatched ==
    /\ \A i \in 1..Len(QueueKeys) :
          _queues[QueueKeys[i]] # <<>> => Dispatched(<<"_queues">>, i)
    /\ \A n \in DOMAIN _tempdirs :
          \A i \in 1..Len(_tempdirs[n]) : Dispatched(n, i)
    /\ \A i \in 1..Len(_archive) : Dispatched(<<"_archive">>, i)

\* the run has gone through its dispatch loops: tarf is about to clean up
\* after the commit, yarf is about to return
AfterDispatch ==
    \/ variant = "tarf" /\ pc = "rf_cleanup" /\ ~_simulate
    \/ variant = "yarf" /\ pc = "return" /\ ~(_verbose /\ _simulate)

\* the aggregate status is at least every exit code seen
StatusRaised ==
    \A j \in 1..Len(dispatched) : _status >= dispatched[j].code

\* C7 as stated: a non-zero exit code of a tool raises the aggregate status
\* and does not abort the remaining buckets: in both variants every
\* non-empty bucket is still dispatched
C7_AllBucketsDispatched ==
    AfterDispatch
        => /\ StatusRaised
           /\ td_status = [n \in DOMAIN td_status |-> "True"] => AllDispatched

\* C7 amended: a non-zero exit code raises the aggregate status; yarf still
\* dispatches every non-empty queue; in tarf it ends the commit: no tool is
\* started after one that ended with a non-zero code, and only a run in which
\* the archive was fully committed has dispatched every bucket
C7_TarfStopsYarfGoesOn ==
    AfterDispatch
        => /\ StatusRaised
           /\ variant = "yarf" => AllDispatched
           /\ variant = "tarf" =>
                 /\ \A j \in 1..(Len(dispatched) - 1) : dispatched[j].code = 0
                 /\ a_done => AllDispatched

\* a tar run of tarf has ended with a non-zero code while a bucket of the
\* archive was still to be dispatched, and the commit has ended there
C7_Witness ==
    /\ variant = "tarf" /\ pc = "rf_cleanup"
    /\ dispatched # <<>>
    /\ dispatched[Len(dispatched)].code # 0
    /\ dispatched[Len(dispatched)].coll = <<"_archive">>
    /\ dispatched[Len(dispatched)].idx < Len(_archive)

\* C8: when a handled signal arrives while a child is running, main sends
\* that same signal number to every child still running, before the cleanup
\* pass, and the process exits with the number of the signal
C8_ForwardsReceivedSignal ==
    (received # 0 /\ at_signal # {} /\ pc \in {"fin_cleanup", "exited"})
        => /\ sent = {<<c, received>> : c \in at_signal}
           /\ exit_status = received

(***************************************************************************)
(* Claims about the staging groups of tarf (Spec)                          *)
(***************************************************************************)
\* the name a line's comment gives after the copy character: the comment
\* starts at the first '#' outside quotes and escapes; <<>> when the line has no
\* comment or its text does not start with the copy character and a name
DirectiveName(ln) ==
    LET c == CommentStart(ln, 1)
        text == IF c = 0 THEN <<>> ELSE LStrip(LStrip(From(ln, c), HASH), " ")
        i == 2 + RunLen(text, " ", 2)
    IN  IF text # <<>> /\ text[1] = _copy_chr
        THEN SubSeq(text, i, i + TempdirRun(text, i) - 1)
        ELSE <<>>

\* C11: in tarf the current staging group is at first the one named after the
\* input file; a comment that starts with the copy character and a name makes
\* the group of that name current, creating it when absent and keeping what
\* it holds when it exists; the entries of a copy-flagged line go to the
\* current group and to no other collection
C11_CopyGoesToCurrentGroup ==
    /\ (variant = "tarf" /\ nlines = 0) => _tempdir = InputBase
    /\ [][(variant = "tarf" /\ LineRead)
            => LET name == DirectiveName(line')
                   cur == IF name # <<>> THEN name ELSE _tempdir
                   before == IF cur \in DOMAIN _tempdirs THEN _tempdirs[cur] ELSE <<>>
               IN  /\ _tempdir' = cur
                   /\ DOMAIN _tempdirs' = DOMAIN _tempdirs \cup {cur}
                   /\ \A n \in DOMAIN _tempdirs \ {cur} : _tempdirs'[n] = _tempdirs[n]
                   /\ IF last'.copy /\ last'.result = "queued"
                      THEN /\ _tempdirs'[cur] =
                                add(add(before, last'.fileList, last'.dir, FALSE),
                                    last'.derefList, last'.dir, TRUE)
                           /\ _archive' = _archive
                      ELSE _tempdirs'[cur] = before]_vars

\* two copy-flagged lines have named the same group, and the group holds the
\* entries of both
C11_Witness ==
    /\ variant = "tarf" /\ nlines = 2
    /\ _tempdir = <<"b">>
    /\ DOMAIN _tempdirs = {InputBase, <<"b">>}
    /\ Len(_tempdirs[<<"b">>]) = 1
    /\ Len(_tempdirs[<<"b">>][1].srcList) = 2

\* C20 as stated: a line without the copy flag, a comment-only line included,
\* leaves the current staging group and the set of staging groups unchanged
C20_OnlyCopyLinesSwitchGroup ==
    [][(variant = "tarf" /\ LineRead /\ ~last'.copy)
          => /\ _tempdir' = _tempdir
             /\ DOMAIN _tempdirs' = DOMAIN _tempdirs]_vars

\* C20 amended: the current staging group changes exactly on a line whose
\* comment starts with the copy character and a name, whether or not the line
\* has the copy flag; any other line leaves the current group and the set of
\* groups unchanged, and a line without the copy flag adds no entry to a group
C20_DirectiveSwitchesGroup ==
    [][(variant = "tarf" /\ LineRead)
          => /\ IF DirectiveName(line') = <<>>
                THEN /\ _tempdir' = _tempdir
                     /\ DOMAIN _tempdirs' = DOMAIN _tempdirs
                ELSE /\ _tempdir' = DirectiveName(line')
                     /\ DOMAIN _tempdirs' = DOMAIN _tempdirs \cup {DirectiveName(line')}
             /\ ~last'.copy
                   => \A n \in DOMAIN _tempdirs : _tempdirs'[n] = _tempdirs[n]]_vars

\* a comment-only line has named a group, which is now the current one
C20_Witness ==
    /\ variant = "tarf" /\ nlines >= 1
    /\ line = <<"#", " ", "%", " ", "b">>
    /\ ~last.copy
    /\ _tempdir = <<"b">>
    /\ <<"b">> \in DOMAIN _tempdirs

(***************************************************************************)
(* Claims about a tool that cannot be started (SpecCommit)                 *)
(***************************************************************************)
\* the positions at which runProc is about to start a tool
SpawnPcs == {"td_spawn", "ar_spawn", "cz_spawn", "rs_spawn"}

\* a step in which runProc does not get its tool started (no subprocess
\* appears) and that no signal has interrupted
ToolNotStarted ==
    /\ pc \in SpawnPcs
    /\ pc' # pc
    /\ dispatched' = dispatched
    /\ received' = received

\* main has left its try block
Unwinding == pc \in {"finally", "fin_cleanup", "exited"}

LinkDirEntries ==
    { DirEnt(<<>>),
      DirEnt(<< <<"r">> >>),
      FileEnt(<< <<"r">>, <<"f">> >>),
      DirEnt(<< <<"r">>, <<"a">> >>),
      FileEnt(<< <<"r">>, <<"a">>, <<"f">> >>),
      FileEnt(<< <<"r">>, <<"a">>, <<"k">> >>),
      FileEnt(<< <<"r">>, <<"a">>, <<"x">> >>) }

\* the files that may lack the read permission
LinkFiles == {e.path : e \in {e \in LinkDirEntries : e.kind = "file"}}

LinkLines ==
    {
      <<"@", " ", "f">>,                          \* @ f
      <<"@", " ", "a", "/", "*">>,                \* @ a/*
      <<"@", " ", "a", "/", "?">>,                \* @ a/?
      <<"@", " ", "z">>                           \* @ z
    }

\* open(link) succeeds
canOpen(fs, cwd, unr, p) ==
    isfile(fs, cwd, p) /\ NodeOf(fs, cwd, p, TRUE) \notin unr

\* processLine, tarf lines 436-438 and yarf lines 202-204, inside the try
\* block: the files are opened one after the other; the first open() that
\* raises ends the loop
RECURSIVE LinkLoop(_, _, _, _)
LinkLoop(fs, cwd, unr, links) ==
    IF links = <<>> THEN [opened |-> <<>>, failed |-> FALSE]
    ELSE IF ~canOpen(fs, cwd, unr, Head(links))
         THEN [opened |-> <<>>, failed |-> TRUE]
    ELSE LET r == LinkLoop(fs, cwd, unr, Tail(links))
         IN  [opened |-> <<Head(links)>> \o r.opened, failed |-> r.failed]

\* processLine, tarf lines 439-443: return True, or the except clause
LinkLine_done(out, st, seen, links, r) ==
    [out EXCEPT
        !.st = IF r.failed THEN updateStatus(st, 1) ELSE st,
        !.opened = r.opened,
        !.last = [seen EXCEPT !.globList = links,
                              !.result = IF r.failed THEN "linkfail" ELSE "linked"]]

\* processLine, tarf lines 433-438: the matches, or the path itself
LinkLine_links(out, st, seen, link_path, links) ==
    LinkLine_done(out, st, seen,
                  IF links = <<>> THEN <<link_path>> ELSE links,
                  LinkLoop(filesys, _rundir, unreadable,
                           IF links = <<>> THEN <<link_path>> ELSE links))

\* processLine, tarf lines 430-433: link_path and its glob
LinkLine_glob(out, st, seen, link_path) ==
    LinkLine_links(out, st, seen, link_path, glob(filesys, _rundir, link_path))

\* processLine, tarf lines 422-430 and yarf lines 185-196, on what parseLine
\* returned for a line with the link flag
LinkLine_parsed(pr, st) ==
    LET seen == [NoLast EXCEPT !.flags = pr.flags, !.pattern = pr.pattern]
        out == [pc |-> "read", st |-> st, opened |-> <<>>, last |-> seen]
    IN  IF ~pr.ok
        THEN [out EXCEPT !.pc = "crashed", !.st = updateStatus(st, 1),
                         !.last = [seen EXCEPT !.result = "crash"]]
        ELSE IF pr.pattern = <<>>
        THEN [out EXCEPT !.last = [seen EXCEPT !.result = "skip"]]
        ELSE IF variant = "yarf" /\ HasChar(pr.flags, _copy_chr)
        THEN [out EXCEPT !.last = [seen EXCEPT !.result = "unrecognized"]]
        ELSE LinkLine_glob(out, st, seen, join(_filedir, pr.pattern))

LinkLineOutcome(ln) ==
    LinkLine_parsed(parseLine(variant, ln),
                    [status |-> _status, num_errors |-> _num_errors])

LInit ==
    /\ PIdle
    /\ CIdle
    /\ variant \in {"tarf", "yarf"}
    /\ _deref = "" /\ _simulate = FALSE /\ _verbose = FALSE
    /\ _remote = FALSE /\ _source = <<>> /\ _purge = FALSE
    /\ filesys = MkFS(LinkDirEntries)
    /\ pc = "read" /\ nlines = 0 /\ line = <<>>
    /\ _status = 0 /\ _num_errors = 0
    /\ _queues = EmptyQueues /\ _archive = <<>>
    /\ _tempdirs = IF variant = "tarf" THEN setTempdir(<<>>, InputBase) ELSE <<>>
    /\ _tempdir = IF variant = "tarf" THEN InputBase ELSE <<>>
    /\ last = NoLast
    /\ unreadable \in SUBSET LinkFiles
    /\ opened = <<>>
    \* path.dirname(arg) of an input file named without a directory
    /\ _filedir = <<>>
    /\ stack = <<>>
    /\ ioerror = {}

\* one pass of the read loop on a line with the link flag
LinkReadLine(ln) ==
    /\ pc = "read"
    /\ nlines < MaxLines
    /\ LET out == LinkLineOutcome(ln)
       IN  /\ pc' = out.pc
           /\ _status' = out.st.status
           /\ _num_errors' = out.st.num_errors
           /\ opened' = opened \o out.opened
           /\ last' = out.last
    /\ line' = ln
    /\ nlines' = nlines + 1
    /\ UNCHANGED <<variant, _deref, _simulate, _verbose, _remote, _source,
                   _purge, filesys, _queues, _archive, _tempdirs, _tempdir,
                   unreadable, _filedir, stack, ioerror, pvars, cvars>>

\* the file has no more lines
LinkEndOfFile ==
    /\ pc = "read"
    /\ pc' = "eof"
    /\ UNCHANGED <<variant, _deref, _simulate, _verbose, _remote, _source,
                   _purge, filesys, nlines, line, _status, _num_errors,
                   _queues, _archive, _tempdirs, _tempdir, last,
                   pvars, cvars, lvars>>

LNext ==
    \/ \E ln \in LinkLines : LinkReadLine(ln)
    \/ LinkEndOfFile

SpecLink == LInit /\ [][LNext]_vars

(***************************************************************************)
(* Claims about link-flagged lines (SpecLink)                              *)
(***************************************************************************)
\* the step has read a link-flagged line and come to its files
LinkLineRead == LineRead /\ last'.result \in {"linked", "linkfail"}

\* C12: when a link-flagged line matches several specification files and one
\* of them cannot be opened, an error is counted for that file, every other
\* matched file is still opened and read, and the loop goes on to the next
\* line
C12_EachLinkedFileOnItsOwn ==
    [][LinkLineRead
          => LET links == last'.globList
                 bad == {i \in 1..Len(links) :
                            ~canOpen(filesys, _rundir, unreadable, links[i])}
             IN  /\ opened' = opened \o
                        SelectSeq(links,
                                  LAMBDA p : canOpen(filesys, _rundir, unreadable, p))
                 /\ _num_errors' = _num_errors + Cardinality(bad)
                 /\ pc' = "read"]_vars

(***************************************************************************)
(* Claims about the aggregate status (Spec)                                *)
(***************************************************************************)
\* the outcomes of processLine that record a non-fatal error
ErrorResults == {"crash", "nodir", "nomatch", "noimplied"}

\* C14: every non-fatal error of a line raises the aggregate status to the
\* maximum of the codes recorded so far and the error count by one, a line
\* without error changes neither, the status never decreases, and the loop
\* goes on to the next line after an error
C14_ErrorsAccumulate ==
    [][LineRead
          => /\ _status' >= _status
             /\ IF last'.result \in ErrorResults
                THEN /\ _status' = Max(_status, 1)
                     /\ _num_errors' = _num_errors + 1
                ELSE /\ _status' = _status
                     /\ _num_errors' = _num_errors
             /\ pc' = "read"]_vars

(***************************************************************************)
(* Claims about the simulation of yarf (Spec)                              *)
(***************************************************************************)
\* the destination entries a purge-flagged line names that have no
\* counterpart under the source root of the line
C15_Purgeable ==
    LET destList == glob(filesys, _rundir, join(_dest, last.implied_pat))
    IN  {i \in 1..Len(destList) :
            ~exists(filesys, _rundir,
                    join(last.dir, LStrip(From(destList[i], Len(_dest) + 1), Sep)))}

\* C15: in yarf under -n, with or without -v, no step of the read loop
\* deletes anything: the filesystem after any line is the filesystem before
C15_SimulateDeletesNothing ==
    [][(variant = "yarf" /\ _simulate) => filesys' = filesys]_vars

\* a purge-flagged line was processed under -n -v with an existing
\* destination, and an entry it would have purged is still there
C15_Witness ==
    /\ variant = "yarf" /\ _simulate /\ _verbose /\ _purge
    /\ HasChar(last.flags, _purge_chr)
    /\ last.result = "queued"
    /\ last.implied_pat # <<>>
    /\ C15_Purgeable # {}

(***************************************************************************)
(* Claims about the final form of the pattern (SpecPattern)                *)
(***************************************************************************)
\* C16: the resolved implied path is a suffix of the final form of the
\* pattern: of the normalized pattern itself in tarf, of the pattern after
\* marker insertion and/or re-rooting under the source root in yarf
C16_ImpliedIsSuffixOfFinalForm ==
    Resolved
        => /\ EndsWith(p_res.pattern, p_res.implied_pat)
           /\ p_variant = "tarf" => p_res.pattern = p_parsed.pattern

\* yarf rewrote a pattern: a marker was inserted in front of the glob part of
\* a pattern that has directories before it, and the implied part is not empty
C16_Witness ==
    /\ Resolved
    /\ p_variant = "yarf"
    /\ ~p_res.error
    /\ p_res.pattern # p_parsed.pattern
    /\ p_res.implied_pat # <<>>
    /\ p_res.implied_pat # p_res.pattern
    /\ Len(p_res.pattern) > Len(p_res.implied_pat) + 4

(***************************************************************************)
(* Claims about parseLine applied twice (SpecPattern)                      *)
(***************************************************************************)
Parsed == p_pc # "raw" /\ p_parsed.ok

\* parseLine on the pattern parseLine returned
C17_Again == parseLine(p_variant, p_parsed.pattern)

\* C17 as stated: parseLine applied to the pattern parseLine returned yields
\* no flags and the same pattern
C17_ParseLineIdempotent ==
    Parsed
        => /\ C17_Again.ok
           /\ C17_Again.flags = <<>>
           /\ C17_Again.pattern = p_parsed.pattern

\* a returned pattern in which nothing is left for the flag, comment, quote,
\* escape, home-directory and variable steps to act on
C17_Plain(s) ==
    /\ ~HasChar(s, HASH) /\ ~HasChar(s, DQ) /\ ~HasChar(s, BSL)
    /\ ~HasChar(s, "$")
    /\ s # <<>> => s[1] \notin _reserved_flags \cup {"~"}

\* C17 as the code has it: a returned pattern that holds no comment, quote,
\* escape or "$" character and starts with neither a flag character nor "~" is
\* returned unchanged and without flags by a second parseLine; no separator
\* run and no marker run is collapsed a second time
C17_IdempotentOnPlainPatterns ==
    (Parsed /\ C17_Plain(p_parsed.pattern))
        => /\ C17_Again.ok
           /\ C17_Again.flags = <<>>
           /\ C17_Again.pattern = p_parsed.pattern

\* a line whose separator run or marker run was collapsed has been parsed
\* into a plain pattern
C17_Witness ==
    /\ Parsed
    /\ C17_Plain(p_parsed.pattern)
    /\ \/ Contains(p_line, <<Sep, Sep>>)
       \/ Contains(p_line, <<Sep, ".", Sep, ".", Sep>>)
    /\ p_parsed.pattern # p_line
    /\ p_parsed.pattern # <<>>

(***************************************************************************)
(* Claims about the documented implied directories (SpecPattern)           *)
(***************************************************************************)
\* the characters the glob constructs of _re_glob_part are made of
GlobMetaChars == {"*", "?", "[", "]", "(", ")"}

NoGlobMeta(s) == \A i \in 1..Len(s) : s[i] \notin GlobMetaChars

\* C18: for a pattern without glob metacharacters, the implied part is the
\* text after the first marker when the pattern has a marker, and the last
\* path component alone (keeping the separator a pattern ends in) when it
\* has none; no directory in front of that component is implied
C18_FirstMarkerOrBasename ==
    (Resolved /\ NoGlobMeta(p_parsed.pattern))
        => LET P == p_parsed.pattern
           IN  IF MarkerIndices(P) # {}
               THEN p_res.implied_pat = AfterFirstMarker(P)
               ELSE /\ p_res.implied_pat = BasenameFallback(P)
                    /\ ~HasChar(RStrip(p_res.implied_pat, Sep), Sep)

\* a pattern without glob metacharacters and with two markers has been
\* resolved in yarf under a source root: the implied part is the text after
\* the first marker, the second marker included
C18_Witness ==
    /\ Resolved
    /\ p_variant = "yarf" /\ p_source # <<>>
    /\ NoGlobMeta(p_parsed.pattern)
    /\ Cardinality(MarkerIndices(p_parsed.pattern)) = 2
    /\ p_res.implied_pat = AfterFirstMarker(p_parsed.pattern)
    /\ Contains(p_res.implied_pat, _relative_pat)

(***************************************************************************)
(* Claims about lines that match nothing (Spec)                            *)
(***************************************************************************)
\* the pattern of the line being read as the glob expansion gets it: as
\* parseLine returns it in tarf, after the rewriting of lines 211-241 in yarf
C19_Pattern ==
    LET pr == parseLine(variant, line')
    IN  IF variant = "tarf" THEN pr.pattern
        ELSE ImpliedYarf(pr.pattern, _source).pattern

\* a step of the read loop on a line whose pattern reaches the glob expansion
\* and matches nothing in the filesystem
C19_NoMatchStep ==
    /\ LineRead
    /\ last'.result \in {"nodir", "nomatch", "queued"}
    /\ glob(filesys, _rundir, C19_Pattern) = <<>>

\* C19: a line whose pattern matches nothing is a counted, non-fatal error
\* that adds no entry to any bucket, in tarf always and in yarf unless the
\* source is remote; with a remote source yarf counts no error and queues the
\* literal pattern as one entry that is not dereferenced
C19_NoMatchIsErrorUnlessRemote ==
    [][C19_NoMatchStep
          => /\ pc' = "read"
             /\ IF variant = "yarf" /\ _remote
                THEN /\ _num_errors' = _num_errors
                     /\ _status' = _status
                     /\ \E relative \in BOOLEAN :
                          _queues' = queueAdd(_queues, C19_Pattern, relative, FALSE)
                ELSE /\ _num_errors' = _num_errors + 1
                     /\ _status' = Max(_status, 1)
                     /\ _queues' = _queues
                     /\ _archive' = _archive
                     /\ \A n \in DOMAIN _tempdirs' :
                          _tempdirs'[n] = IF n \in DOMAIN _tempdirs
                                          THEN _tempdirs[n] ELSE <<>>]_vars

(***************************************************************************)
(* SpecInclude: the read loop with included specification files.  The      *)
(* input file is read line by line; a link-flagged line opens the files it *)
(* matches and readLines (tarf) / readFile (yarf) is called on each, to    *)
(* any depth.  The lines of the input file are drawn from IncLines, the    *)
(* included files have the lines FileLines gives them.                     *)
(***************************************************************************)
\* the run directory /r: a file f, a directory a with a file f, a link m
\* to that directory, and the directory k that holds the specification files
\* l and x and, in its directory e, the specification file m
IncDirEntries ==
    { DirEnt(<<>>),
      DirEnt(<< <<"r">> >>),
      FileEnt(<< <<"r">>, <<"f">> >>),
      DirEnt(<< <<"r">>, <<"a">> >>),
      FileEnt(<< <<"r">>, <<"a">>, <<"f">> >>),
      LinkEnt(<< <<"r">>, <<"m">> >>, << <<"r">>, <<"a">> >>),
      DirEnt(<< <<"r">>, <<"k">> >>),
      FileEnt(<< <<"r">>, <<"k">>, <<"l">> >>),
      FileEnt(<< <<"r">>, <<"k">>, <<"x">> >>),
      DirEnt(<< <<"r">>, <<"k">>, <<"e">> >>),
      FileEnt(<< <<"r">>, <<"k">>, <<"e">>, <<"m">> >>),
      DirEnt(<< <<"t">> >>) }

\* the lines of the specification files below /r/k
FileLines(file) ==
    IF file = << <<"r">>, <<"k">>, <<"l">> >>
    THEN << <<"@", " ", "e", "/", "m">>,          \* @ e/m
            <<"f">>,                              \* f
            <<"@", " ", "z">> >>                  \* @ z
    ELSE IF file = << <<"r">>, <<"k">>, <<"e">>, <<"m">> >>
    THEN << <<"a", "/", ".", "/", "f">> >>        \* a/./f
    ELSE IF file = << <<"r">>, <<"k">>, <<"x">> >>
    THEN << <<"f">> >>                            \* f
    ELSE <<>>

\* the files a read of which may fail with an I/O error
IoFiles == { << <<"r">>, <<"k">>, <<"x">> >> }

\* the lines of the input file
IncLines ==
    {
      <<"f">>,                                    \* f
      <<"?">>,                                    \* ?
      <<"@", " ", "l">>,                          \* @ l
      <<"@", " ", "k", "/", "l">>,                \* @ k/l
      <<"@", " ", "k", "/", "x">>,                \* @ k/x
      <<"@", " ", "k", "/", "*">>                 \* @ k/*
    }

\* _filedir as instantiateGlobals leaves it
None == <<"None">>

\* a call of readLines / readFile(file, filedir): its arguments, its local
\* saved_filedir and the index of the next line of the file
ReadFrame(file, filedir, saved) ==
    [kind |-> "read", file |-> file, filedir |-> filedir,
     saved_filedir |-> saved, pos |-> 1, links |-> <<>>]

\* a call of processLine that is in its link branch: the links of the for
\* loop that have not been opened yet
LinkFrame(links) ==
    [kind |-> "link", file |-> NoNode, filedir |-> <<>>,
     saved_filedir |-> <<>>, pos |-> 0, links |-> links]

Top == stack[Len(stack)]

Pop(st) == SubSeq(st, 1, Len(st) - 1)

\* the stack with the line index of its innermost call advanced
Advanced == [stack EXCEPT ![Len(stack)].pos = @ + 1]

\* main has opened the input file, and readFile has called
\* readLines(file, path.dirname(arg)) for an input file named without a
\* directory
IInit ==
    /\ PIdle
    /\ CIdle
    /\ variant \in {"tarf", "yarf"}
    /\ _deref \in {"", "H"} /\ _simulate = FALSE /\ _verbose = FALSE
    /\ _remote = FALSE /\ _source = <<>> /\ _purge = FALSE
    /\ filesys = MkFS(IncDirEntries)
    /\ pc = "read" /\ nlines = 0 /\ line = <<>>
    /\ _status = 0 /\ _num_errors = 0
    /\ _queues = EmptyQueues /\ _archive = <<>>
    /\ _tempdirs = IF variant = "tarf" THEN setTempdir(<<>>, InputBase) ELSE <<>>
    /\ _tempdir = IF variant = "tarf" THEN InputBase ELSE <<>>
    /\ last = NoLast
    /\ unreadable = {}
    /\ opened = <<>>
    /\ ioerror \in SUBSET IoFiles
    /\ _filedir = <<>>
    /\ stack = <<ReadFrame(NoNode, <<>>, None)>>

\* processLine(ln) on a line without the link flag, as in the read loop of
\* Spec; st is the stack once the line is taken from its file
IncPlainLine(ln, st) ==
    /\ IF variant = "tarf"
       THEN LET out == TarfLineOutcome(ln)
            IN  /\ pc' = out.pc
                /\ _status' = out.st.status
                /\ _num_errors' = out.st.num_errors
                /\ _archive' = out.archive
                /\ _tempdirs' = out.tempdirs
                /\ _tempdir' = out.tempdir
                /\ last' = out.last
                /\ UNCHANGED <<_queues, filesys>>
       ELSE LET out == YarfLineOutcome(ln)
            IN  /\ pc' = out.pc
                /\ _status' = out.st.status
                /\ _num_errors' = out.st.num_errors
                /\ _queues' = out.queues
                /\ filesys' = out.filesys
                /\ last' = out.last
                /\ UNCHANGED <<_archive, _tempdirs, _tempdir>>
    /\ stack' = st
    /\ UNCHANGED <<_filedir, opened>>

\* processLine(ln) on a line with the link flag, tarf lines 430-435 and yarf
\* lines 196-201: link_path is joined to _filedir and globbed, and the for
\* loop over the matches (over link_path itself if there are none) begins
IncLinkLine(pr, st) ==
    /\ LET link_path == join(_filedir, pr.pattern)
           links == glob(filesys, _rundir, link_path)
       IN  stack' = Append(st, LinkFrame(IF links = <<>> THEN <<link_path>>
                                         ELSE links))
    /\ last' = [NoLast EXCEPT !.flags = pr.flags, !.pattern = pr.pattern,
                              !.result = "link"]
    /\ UNCHANGED <<pc, _status, _num_errors, _queues, _archive, _tempdirs,
                   _tempdir, filesys, _filedir, opened>>

\* processLine(ln) on what parseLine returned
IncProcessLine(ln, pr, st) ==
    IF pr.ok /\ pr.pattern # <<>> /\ HasChar(pr.flags, _link_chr)
       /\ ~(variant = "yarf" /\ HasChar(pr.flags, _copy_chr))
    THEN IncLinkLine(pr, st)
    ELSE IncPlainLine(ln, st)

\* every line a specification file of this filesystem can hold
AllIncLines ==
    IncLines \cup UNION {{FileLines(f)[i] : i \in 1..Len(FileLines(f))} :
                            f \in DOMAIN MkFS(IncDirEntries)}

IncFrame ==
    UNCHANGED <<variant, _deref, _simulate, _verbose, _remote, _source, _purge,
                unreadable, ioerror, pvars, cvars>>

\* the loop of the innermost readLines / readFile takes the next line of its
\* file: any line in the input file, the line FileLines gives in an included
\* file
IncReadLine(ln) ==
    /\ pc = "read"
    /\ stack # <<>>
    /\ Top.kind = "read"
    /\ IF Len(stack) = 1
       THEN /\ nlines < MaxLines
            /\ ln \in IncLines
            /\ nlines' = nlines + 1
       ELSE /\ Top.file \notin ioerror
            /\ Top.pos <= Len(FileLines(Top.file))
            /\ ln = FileLines(Top.file)[Top.pos]
            /\ nlines' = nlines
    /\ IncProcessLine(ln, parseLine(variant, ln),
                      IF Len(stack) = 1 THEN stack ELSE Advanced)
    /\ line' = ln
    /\ IncFrame

\* the for loop of the link branch, tarf lines 436-438 and yarf lines 202-204:
\* open(link) and readLines / readFile(file, path.dirname(link)), which saves
\* _filedir and sets it (tarf lines 538-539, yarf lines 325-326); an open()
\* that raises is caught by the except clause of the branch (tarf lines
\* 440-443), which counts the error and returns
IncOpen ==
    /\ pc = "read"
    /\ stack # <<>>
    /\ Top.kind = "link"
    /\ Top.links # <<>>
    /\ LET link == Head(Top.links)
       IN  IF canOpen(filesys, _rundir, unreadable, link)
           THEN /\ stack' = Append([stack EXCEPT ![Len(stack)].links = Tail(@)],
                                   ReadFrame(NodeOf(filesys, _rundir, link, TRUE),
                                             dirname(link), _filedir))
                /\ _filedir' = dirname(link)
                /\ opened' = Append(opened, link)
                /\ UNCHANGED <<_status, _num_errors, last>>
           ELSE /\ stack' = Pop(stack)
                /\ _status' = updateStatus([status |-> _status,
                                            num_errors |-> _num_errors], 1).status
                /\ _num_errors' = _num_errors + 1
                /\ last' = [last EXCEPT !.result = "linkfail"]
                /\ UNCHANGED <<_filedir, opened>>
    /\ UNCHANGED <<pc, nlines, line, _queues, _archive, _tempdirs, _tempdir,
                   filesys>>
    /\ IncFrame

\* "for line in file" raises OSError in an included file: the exception leaves
\* readLines / readFile before the last statement (tarf line 550, yarf line
\* 331) and is caught by the except clause of the link branch that opened the
\* file
IncReadError ==
    /\ pc = "read"
    /\ Len(stack) > 1
    /\ Top.kind = "read"
    /\ Top.file \in ioerror
    /\ stack' = Pop(Pop(stack))
    /\ _status' = updateStatus([status |-> _status,
                                num_errors |-> _num_errors], 1).status
    /\ _num_errors' = _num_errors + 1
    /\ last' = [last EXCEPT !.result = "linkfail"]
    /\ UNCHANGED <<pc, nlines, line, _queues, _archive, _tempdirs, _tempdir,
                   filesys, _filedir, opened>>
    /\ IncFrame

\* an included file has no more lines: _filedir = saved_filedir, and
\* readLines / readFile returns to the for loop of the link branch
IncEndOfFile ==
    /\ pc = "read"
    /\ Len(stack) > 1
    /\ Top.kind = "read"
    /\ Top.file \notin ioerror
    /\ Top.pos > Len(FileLines(Top.file))
    /\ _filedir' = Top.saved_filedir
    /\ stack' = Pop(stack)
    /\ UNCHANGED <<pc, nlines, line, _status, _num_errors, _queues, _archive,
                   _tempdirs, _tempdir, filesys, last, opened>>
    /\ IncFrame

\* the for loop of the link branch is over: processLine returns True
IncLinkDone ==
    /\ pc = "read"
    /\ stack # <<>>
    /\ Top.kind = "link"
    /\ Top.links = <<>>
    /\ stack' = Pop(stack)
    /\ last' = [last EXCEPT !.result = "linked"]
    /\ UNCHANGED <<pc, nlines, line, _status, _num_errors, _queues, _archive,
                   _tempdirs, _tempdir, filesys, _filedir, opened>>
    /\ IncFrame

\* the input file has no more lines: the outermost readLines / readFile
\* restores _filedir and returns
IncMainEnd ==
    /\ pc = "read"
    /\ Len(stack) = 1
    /\ pc' = "eof"
    /\ _filedir' = Top.saved_filedir
    /\ stack' = <<>>
    /\ UNCHANGED <<nlines, line, _status, _num_errors, _queues, _archive,
                   _tempdirs, _tempdir, filesys, last, opened>>
    /\ IncFrame

INext ==
    \/ \E ln \in AllIncLines : IncReadLine(ln)
    \/ IncOpen
    \/ IncReadError
    \/ IncEndOfFile
    \/ IncLinkDone
    \/ IncMainEnd

SpecInclude == IInit /\ [][INext]_vars

(***************************************************************************)
(* Claims about the file-directory context (SpecInclude)                   *)
(***************************************************************************)
\* the innermost call of readLines / readFile that has not returned
InnermostRead ==
    LET reads == {i \in 1..Len(stack) : stack[i].kind = "read"}
    IN  stack[CHOOSE i \in reads : \A j \in reads : j <= i]

\* C21: while a specification file is read, _filedir is the directory of
\* that file; once a link-flagged line of it has been processed, whether its
\* files could be read or not, _filedir is again the directory of the file
\* the line is in
C21_ContextIsDirectoryOfFileRead ==
    stack # <<>> => _filedir = InnermostRead.filedir

(***************************************************************************)
(* SpecDrain: commit, compressAndReplace, remove and cleanup applied to    *)
(* collections in every state the classes give them (None, True, False),   *)
(* with a destination that may hold files of the names the run uses.  In a *)
(* run of main every collection is new when readFile commits it; here the  *)
(* methods are also entered with a collection that has been committed, or  *)
(* whose commit has failed, before.                                        *)
(***************************************************************************)
\* the states of a FileCollection
StatusValues == {"None", "True", "False"}

\* the names the run uses under the destination
DestNames == {ArchiveName, CompressedName, InputBase}

DrainTempdirChoices ==
    { InputBase :> <<>>, InputBase :> <<BucketF>>, InputBase :> <<BucketF, BucketL>> }

DInit ==
    /\ PIdle
    /\ LIdle
    /\ variant \in {"tarf", "yarf"}
    /\ _deref = "" /\ _remote = FALSE /\ _source = <<>> /\ _purge = FALSE
    /\ _simulate = FALSE /\ _verbose = FALSE
    /\ filesys = MkFS(RunDirEntries \cup EmptyDest)
    /\ pc = "commit" /\ nlines = 0 /\ line = <<>> /\ last = NoLast
    /\ _status = 0 /\ _num_errors = 0
    /\ _queues \in IF variant = "yarf" THEN QueueChoices ELSE {EmptyQueues}
    /\ _archive \in IF variant = "tarf" THEN ArchiveChoices ELSE {<<>>}
    /\ _tempdirs \in IF variant = "tarf" THEN DrainTempdirChoices ELSE {<<>>}
    /\ _tempdir = IF variant = "tarf" THEN InputBase ELSE <<>>
    /\ _compress \in IF variant = "tarf" THEN BOOLEAN ELSE {FALSE}
    /\ final_name \in IF variant = "yarf" THEN {ArchiveName}
                      ELSE IF _compress THEN {CompressedName}
                      ELSE {ArchiveName, CompressedName}
    /\ a_status \in IF variant = "tarf" THEN StatusValues ELSE {"None"}
    /\ a_path = ArchiveName /\ a_done = FALSE
    /\ td_status \in [DOMAIN _tempdirs -> StatusValues]
    /\ td_left = {}
    /\ coll = <<>> /\ idx = 0 /\ _children = {}
    \* a committed collection is on disk, put there by the program
    /\ disk = (IF a_status = "True" THEN {a_path} ELSE {})
                \cup {n \in DOMAIN _tempdirs : td_status[n] = "True"}
    /\ old \in IF variant = "tarf" THEN SUBSET (DestNames \ disk) ELSE {{}}
    /\ received = 0 /\ at_signal = {} /\ sent = {} /\ exit_status = 0
    /\ dispatched = <<>>

SpecDrain == DInit /\ [][CNext]_vars

\* the subprocesses started for the buckets of the archive, oldest first
ArchiveRuns ==
    SelectSeq(dispatched, LAMBDA d : d.coll = <<"_archive">> /\ d.idx >= 1)

\* C22: while the archive is committed, the k-th subprocess started for it
\* carries its k-th bucket, so that no bucket is dispatched twice; the first
\* one is a create invocation and every later one an append invocation; and
\* commit on an archive or a staging group that is not in the state None
\* starts no subprocess.
C22_DrainedOnce ==
    /\ [](\A k \in 1..Len(ArchiveRuns) :
            /\ ArchiveRuns[k].idx = k
            /\ k <= Len(_archive)
            /\ ArchiveRuns[k].cmd = IF k = 1 THEN "_tar_create" ELSE "_tar_append")
    /\ [][/\ (pc = "ar_commit" /\ a_status # "None")
                => (dispatched' = dispatched /\ pc' \notin {"ar_spawn", "ar_run"})
          /\ (pc' = "ar_spawn" /\ pc # "ar_spawn")
                => ((pc = "ar_commit" /\ a_status = "None") \/ pc = "ar_run")
          /\ \A n \in DOMAIN _tempdirs :
                (pc = "tds" /\ n \in td_left /\ n \notin td_left'
                   /\ td_status[n] # "None")
                => (dispatched' = dispatched /\ pc' \notin {"td_spawn", "td_run"})
          /\ (pc' = "td_spawn" /\ pc = "tds") => td_status[coll'] = "None"]_vars

\* both buckets of an archive have been dispatched, and the second has ended
C22_Witness ==
    /\ Len(ArchiveRuns) = 2
    /\ ArchiveRuns[2].code = 0
    /\ pc = "compress"

\* commit has been entered with an archive that was committed before
C22_WitnessCommitted ==
    /\ pc = "rf_cleanup"
    /\ td_left = {}
    /\ a_status = "True"
    /\ _archive # <<>>
    /\ dispatched = <<>>
    /\ \A n \in DOMAIN td_status : td_status[n] = "None"

(***************************************************************************)
(* Claims about the buckets                                                *)
(***************************************************************************)
\* a step that has passed one line without the link flag, of the input file
\* or of an included file, through processLine
PlainLineRead ==
    /\ pc = "read"
    /\ IF stack = <<>>
       THEN nlines' = nlines + 1
       ELSE /\ Len(stack') = Len(stack)
            /\ \/ nlines' = nlines + 1
               \/ stack'[Len(stack)].pos = Top.pos + 1

\* the entries of the bucket of a collection that has the key (base, follow)
BucketAt(queues, base, follow) ==
    LET is == {i \in 1..Len(queues) :
                  queues[i].base = base /\ queues[i].follow = follow}
    IN  IF is = {} THEN <<>> ELSE queues[CHOOSE i \in is : TRUE].srcList

KeysOf(queues) == {<<queues[i].base, queues[i].follow>> : i \in 1..Len(queues)}

IsPrefix(s, t) == Len(s) <= Len(t) /\ SubSeq(t, 1, Len(s)) = s

\* the entries of xs that are in ys, in the order of xs
Among(xs, ys) == SelectSeq(xs, LAMBDA x : \E j \in 1..Len(ys) : ys[j] = x)

\* a collection after a line with the outcome ln: no key twice, the buckets
\* it had stay where they are, and every bucket is what it was followed by
\* the entries of the line that have its key
C23_Appended(before, after, ln) ==
    /\ \A i, j \in 1..Len(after) :
          (after[i].base = after[j].base /\ after[i].follow = after[j].follow)
             => i = j
    /\ Len(before) <= Len(after)
    /\ \A i \in 1..Len(before) :
          after[i].base = before[i].base /\ after[i].follow = before[i].follow
    /\ KeysOf(after) =
          KeysOf(before)
             \cup (IF ln.fileList # <<>> THEN {<<ln.dir, FALSE>>} ELSE {})
             \cup (IF ln.derefList # <<>> THEN {<<ln.dir, TRUE>>} ELSE {})
    /\ \A key \in KeysOf(after) :
          BucketAt(after, key[1], key[2]) =
             BucketAt(before, key[1], key[2])
                \o (IF key = <<ln.dir, FALSE>> THEN ln.fileList
                    ELSE IF key = <<ln.dir, TRUE>> THEN ln.derefList
                    ELSE <<>>)

\* what yarf queues under the key k for the entries of list, one at a time
RECURSIVE C23_QueuedFor(_, _, _, _)
C23_QueuedFor(k, list, relative, local) ==
    IF list = <<>> THEN <<>>
    ELSE QueueAll(filesys', EmptyQueues, <<Head(list)>>, relative, _deref, local)[k]
            \o C23_QueuedFor(k, Tail(list), relative, local)

\* C23: a line that is queued appends its classified entries to the buckets
\* of their keys, (base directory, follow) in tarf and (relative, follow) in
\* yarf, in match order, after what the buckets hold from the lines before
\* it (the lines of an included file among them, where the line that
\* includes it stands); the other buckets, and all buckets on every other
\* step of the read loop, stay as they are.
C23_AppendOrder ==
    [][/\ (variant = "tarf" /\ PlainLineRead /\ last'.result = "queued")
            => /\ IF last'.copy
                  THEN /\ C23_Appended(IF _tempdir' \in DOMAIN _tempdirs
                                       THEN _tempdirs[_tempdir'] ELSE <<>>,
                                       _tempdirs'[_tempdir'], last')
                       /\ \A n \in DOMAIN _tempdirs \ {_tempdir'} :
                             _tempdirs'[n] = _tempdirs[n]
                       /\ _archive' = _archive
                  ELSE /\ C23_Appended(_archive, _archive', last')
                       /\ \A n \in DOMAIN _tempdirs : _tempdirs'[n] = _tempdirs[n]
               /\ Among(last'.fileList, last'.globList)
                     = Among(last'.globList, last'.fileList)
               /\ Among(last'.derefList, last'.globList)
                     = Among(last'.globList, last'.derefList)
       /\ (variant = "yarf" /\ PlainLineRead /\ last'.result = "queued")
            => \E relative, local \in BOOLEAN :
                  /\ ~_remote => local
                  /\ \A k \in DOMAIN _queues :
                        _queues'[k] = _queues[k]
                           \o C23_QueuedFor(k, last'.globList, relative, local)
       /\ (pc = "read" /\ ~(PlainLineRead /\ last'.result = "queued"))
            => /\ _queues' = _queues
               /\ _archive' = _archive
               /\ \A n \in DOMAIN _tempdirs : _tempdirs'[n] = _tempdirs[n]
               /\ \A n \in DOMAIN _tempdirs' \ DOMAIN _tempdirs :
                     _tempdirs'[n] = <<>>]_vars

\* a bucket holds, in this order, the entry of the line of an included file
\* and the four matches of the line of the input file that follows the
\* including line, the link m among them as its contents
C23_Witness ==
    /\ variant = "tarf"
    /\ _deref = "H"
    /\ pc = "eof"
    /\ Len(opened) > 0
    /\ \E i \in 1..Len(_archive) : Len(_archive[i].srcList) >= 5

(***************************************************************************)
(* Claims about the status of the run                                      *)
(***************************************************************************)
\* main has returned, or is in its finally clause
Returned == pc \in {"finally", "fin_cleanup", "exited"}

\* C24: in every state of a run the aggregate status is zero exactly when
\* the error count is zero, whatever codes updateStatus has been given, the
\* negative code of a tool killed by a signal among them; and a run that
\* returns the exit status 0 has recorded no error.
C24_StatusZeroIffNoErrors ==
    /\ (_status = 0) <=> (_num_errors = 0)
    /\ (Returned /\ exit_status = 0) => _num_errors = 0

\* the same for the runs in which no tool has been killed by a signal
C24_UnlessKilled ==
    (\A j \in 1..Len(dispatched) : dispatched[j].code # Killed)
        => C24_StatusZeroIffNoErrors

(***************************************************************************)
(* SpecDest: the commit phase of a run of main (every collection is new)   *)
(* with a destination that may hold files of the names the run uses.       *)
(***************************************************************************)
OInit ==
    /\ DInit
    /\ a_status = "None"
    /\ \A n \in DOMAIN td_status : td_status[n] = "None"

SpecDest == OInit /\ [][CNext]_vars

\* the paths whose collection is in the committed state
CommittedPaths ==
    (IF a_status = "True" THEN {a_path} ELSE {})
        \cup {n \in DOMAIN td_status : td_status[n] = "True"}

\* C25: in tarf a path that was at the destination before the run is removed
\* only by the safeRemove of a commit or of compressAndReplace that the user
\* has agreed to, for a collection that has entries: a step of cleanup, of
\* remove() or of the end of readFile removes nothing but paths of committed
\* collections, which are never paths from before the run; and the path of a
\* collection whose overwrite was declined (its status is False), or that has
\* no entries, stays where it is.
C25_OnlyCommittedPathsRemoved ==
    /\ [](variant = "tarf" => CommittedPaths \cap old = {})
    /\ [][variant = "tarf"
            => /\ pc \in {"rf_cleanup", "fin_cleanup", "cz_run"}
                    => /\ old' = old
                       /\ disk \ disk' \subseteq CommittedPaths
               /\ \A p \in old \ old' :
                     \/ /\ pc = "ar_commit" /\ p = a_path
                        /\ a_status = "None" /\ _archive # <<>>
                        /\ a_status' # "False"
                     \/ /\ pc = "tds" /\ p \in td_left
                        /\ td_status[p] = "None" /\ _tempdirs[p] # <<>>
                     \/ /\ pc = "compress" /\ p = final_name
                        /\ a_status = "True"
               /\ (a_status = "False" /\ a_path \in old) => a_path \in old'
               /\ \A n \in DOMAIN td_status :
                     (td_status[n] = "False" /\ n \in old) => n \in old']_vars

\* the run has ended after the user declined to have the file at the path of
\* the archive overwritten: the staging directory it had made is removed,
\* the file is still there
C25_Witness ==
    /\ variant = "tarf"
    /\ pc = "exited"
    /\ received = 0
    /\ exit_status = 0
    /\ a_status = "False"
    /\ a_path \in old
    /\ td_status = (InputBase :> "True")
    /\ InputBase \notin disk \cup old
    /\ Len(dispatched) > 0
====
